---------------------------- MODULE Spec2Model ----------------------------
(***************************************************************************)
(* Usage tracking and aggregation engine of the multi-provider gateway.   *)
(*                                                                         *)
(* The store is the SQLite database of config.py (sqlite+aiosqlite): three *)
(* tables, each with a UNIQUE constraint over its aggregation key, one     *)
(* database-wide write lock, and transactions that begin at the first      *)
(* INSERT of a connection.  track_usage runs as a coroutine; every await   *)
(* in it is one step of the model, so that concurrent calls interleave     *)
(* exactly at the points where the event loop can switch tasks.            *)
(*                                                                         *)
(* Costs are kept as exact integers in hundredths of the currency unit;    *)
(* binary floating-point rounding is not modelled.                         *)
(***************************************************************************)
EXTENDS Integers, Sequences, FiniteSets, TLC

\* Number of track_usage calls made in one behaviour.
MaxCalls == 2

\* Python's None / SQL NULL for the optional user_id.
None == "<None>"

(***************************************************************************)
(* Dates and the derived fields of track_usage.                            *)
(***************************************************************************)
DateTime(y, m, d, h) == [year |-> y, month |-> m, day |-> d, hour |-> h]

\* datetime.date(): the calendar day of a timestamp.
date(dt) == [year |-> dt.year, month |-> dt.month, day |-> dt.day]

Digits == <<"0", "1", "2", "3", "4", "5", "6", "7", "8", "9">>

\* One decimal digit of n, as a character.
Digit(n, place) == Digits[((n \div place) % 10) + 1]

\* f"{usage_date.year:04d}-{usage_date.month:02d}" as a sequence of characters.
FormatYearMonth(usage_date) ==
    << Digit(usage_date.year, 1000), Digit(usage_date.year, 100),
       Digit(usage_date.year, 10), Digit(usage_date.year, 1),
       "-",
       Digit(usage_date.month, 10), Digit(usage_date.month, 1) >>

(***************************************************************************)
(* Usage events: the keyword arguments of track_usage.                     *)
(***************************************************************************)
Event(sid, uid, prov, model, pt, ct, ic, oc, tc, cur, dt) ==
    [session_id |-> sid, user_id |-> uid, provider |-> prov, model_id |-> model,
     prompt_tokens |-> pt, completion_tokens |-> ct,
     input_cost |-> ic, output_cost |-> oc, total_cost |-> tc,
     currency |-> cur, usage_datetime |-> dt]

\* The events a caller may submit.  The first two share every key (the pair
\* of the session test) and differ in provider and currency, the third is
\* on another day with another model, served by a provider that sorts after
\* the others while its model sorts before theirs, the fourth carries
\* no user_id, the fifth falls on another day of the month of the first and
\* the sixth in another month.
Events ==
    { Event("session-1", "user-1", "openai", "gpt-4", 50, 10, 40, 10, 50, "USD",
            DateTime(2024, 5, 1, 12)),
      Event("session-1", "user-1", "google", "gpt-4", 20, 5, 16, 8, 24, "EUR",
            DateTime(2024, 5, 1, 12)),
      Event("session-2", "user-1", "vertex", "claude-3", 40, 10, 32, 18, 50, "USD",
            DateTime(2024, 5, 2, 15)),
      Event("session-1", None, "openai", "gpt-4", 50, 10, 40, 10, 50, "USD",
            DateTime(2024, 5, 1, 12)),
      Event("session-2", "user-1", "openai", "gpt-4", 30, 20, 30, 20, 50, "USD",
            DateTime(2024, 5, 2, 9)),
      Event("session-1", "user-1", "openai", "gpt-4", 30, 20, 30, 20, 50, "USD",
            DateTime(2024, 6, 1, 9)) }

(***************************************************************************)
(* The aggregate store.                                                    *)
(*                                                                         *)
(* A table is the sequence of its rows in rowid order (the autoincrement   *)
(* id of a row is its position).                                           *)
(***************************************************************************)
EmptyDb == [session_usage |-> << >>, daily_usage |-> << >>, monthly_usage |-> << >>]

\* The cost columns are Float: binary floating point numbers, here amounts
\* in hundredths with a significand of MantissaBits bits (53 in the database,
\* scaled down).  An amount below 2^MantissaBits is kept exactly.
MantissaBits == 8

\* The Float nearest to the amount n >= 0, ties to the even significand.
FloatRound(n) ==
    IF n < 2 ^ MantissaBits THEN n
    ELSE LET e == CHOOSE k \in 1..(30 - MantissaBits) :
                      /\ n < 2 ^ (MantissaBits + k)
                      /\ n >= 2 ^ (MantissaBits + k - 1)
             q == n \div (2 ^ e)
             r == n % (2 ^ e)
             m == IF 2 * r > 2 ^ e \/ (2 * r = 2 ^ e /\ q % 2 = 1) THEN q + 1 ELSE q
         IN  m * (2 ^ e)

\* column + excluded.column on a Float column.
FloatAdd(a, b) == FloatRound(a + b)

\* Equality of a nullable column as a UNIQUE index sees it: a NULL is distinct
\* from every value, another NULL included, so a row whose user_id is NULL
\* never conflicts.  The other key columns are NOT NULL.
UniqueEq(a, b) == a # None /\ b # None /\ a = b

\* uq_session_user_date_model
SessionUsageConflict(row, new) ==
    /\ row.session_id = new.session_id
    /\ UniqueEq(row.user_id, new.user_id)
    /\ row.usage_date = new.usage_date
    /\ row.model_id = new.model_id

\* Mutant: the daily constraint without model_id.
DailyUsageConflictAnyModel(row, new) ==
    /\ row.date = new.date
    /\ UniqueEq(row.user_id, new.user_id)

\* uq_daily_user_model
DailyUsageConflict(row, new) ==
    /\ row.date = new.date
    /\ UniqueEq(row.user_id, new.user_id)
    /\ row.model_id = new.model_id

\* uq_monthly_user_model
MonthlyUsageConflict(row, new) ==
    /\ row.year_month = new.year_month
    /\ UniqueEq(row.user_id, new.user_id)
    /\ row.model_id = new.model_id

(***************************************************************************)
(* The three INSERT ... ON CONFLICT DO UPDATE statements.  `f` is the      *)
(* frame of a call: its arguments and the locals derived from them.        *)
(***************************************************************************)
\* Mutant: total_tokens is stored as the prompt tokens alone.
SessionUsageValuesPromptOnly(f) ==
    [session_id |-> f.session_id, user_id |-> f.user_id,
     usage_date |-> f.usage_date, provider |-> f.provider,
     model_id |-> f.model_id, prompt_tokens |-> f.prompt_tokens,
     completion_tokens |-> f.completion_tokens, total_tokens |-> f.prompt_tokens,
     input_cost |-> f.input_cost, output_cost |-> f.output_cost,
     total_cost |-> f.total_cost, currency |-> f.currency,
     created_at |-> f.now]

SessionUsageValues(f) ==
    [session_id |-> f.session_id, user_id |-> f.user_id,
     usage_date |-> f.usage_date, provider |-> f.provider,
     model_id |-> f.model_id, prompt_tokens |-> f.prompt_tokens,
     completion_tokens |-> f.completion_tokens, total_tokens |-> f.total_tokens,
     input_cost |-> f.input_cost, output_cost |-> f.output_cost,
     total_cost |-> f.total_cost, currency |-> f.currency,
     created_at |-> f.now]

\* Mutant: the token fields are overwritten with the event's values.
SessionUsageSetOverwrite(row, f) ==
    [row EXCEPT !.provider = f.provider,
                !.prompt_tokens = f.prompt_tokens,
                !.completion_tokens = f.completion_tokens,
                !.total_tokens = f.total_tokens,
                !.input_cost = FloatAdd(row.input_cost, f.input_cost),
                !.output_cost = FloatAdd(row.output_cost, f.output_cost),
                !.total_cost = FloatAdd(row.total_cost, f.total_cost),
                !.currency = f.currency]

\* Mutant: the merge stamps the row with the time of the merged event.
SessionUsageSetStampsRow(row, f) ==
    [row EXCEPT !.provider = f.provider,
                !.prompt_tokens = row.prompt_tokens + f.prompt_tokens,
                !.completion_tokens = row.completion_tokens + f.completion_tokens,
                !.total_tokens = row.total_tokens + f.total_tokens,
                !.input_cost = FloatAdd(row.input_cost, f.input_cost),
                !.output_cost = FloatAdd(row.output_cost, f.output_cost),
                !.total_cost = FloatAdd(row.total_cost, f.total_cost),
                !.currency = f.currency,
                !.created_at = f.now]

SessionUsageSet(row, f) ==
    [row EXCEPT !.provider = f.provider,
                !.prompt_tokens = row.prompt_tokens + f.prompt_tokens,
                !.completion_tokens = row.completion_tokens + f.completion_tokens,
                !.total_tokens = row.total_tokens + f.total_tokens,
                !.input_cost = FloatAdd(row.input_cost, f.input_cost),
                !.output_cost = FloatAdd(row.output_cost, f.output_cost),
                !.total_cost = FloatAdd(row.total_cost, f.total_cost),
                !.currency = f.currency]

UpsertSessionUsage(table, f) ==
    LET new == SessionUsageValues(f)
        hit == {i \in 1..Len(table) : SessionUsageConflict(table[i], new)}
    IN  IF hit = {} THEN Append(table, new)
        ELSE [i \in 1..Len(table) |->
                 IF i \in hit THEN SessionUsageSet(table[i], f) ELSE table[i]]

\* Mutant: request_count left at the column default.
DailyUsageValuesDefaultCount(f) ==
    [date |-> f.usage_date, user_id |-> f.user_id, provider |-> f.provider,
     model_id |-> f.model_id, prompt_tokens |-> f.prompt_tokens,
     completion_tokens |-> f.completion_tokens, total_tokens |-> f.total_tokens,
     total_cost |-> f.total_cost, request_count |-> 0]

DailyUsageValues(f) ==
    [date |-> f.usage_date, user_id |-> f.user_id, provider |-> f.provider,
     model_id |-> f.model_id, prompt_tokens |-> f.prompt_tokens,
     completion_tokens |-> f.completion_tokens, total_tokens |-> f.total_tokens,
     total_cost |-> f.total_cost, request_count |-> 1]

\* Mutant: the daily total_cost is not accumulated.
DailyUsageSetKeepsCost(row, f) ==
    [row EXCEPT !.provider = f.provider,
                !.prompt_tokens = row.prompt_tokens + f.prompt_tokens,
                !.completion_tokens = row.completion_tokens + f.completion_tokens,
                !.total_tokens = row.total_tokens + f.total_tokens,
                !.request_count = row.request_count + 1]

DailyUsageSet(row, f) ==
    [row EXCEPT !.provider = f.provider,
                !.prompt_tokens = row.prompt_tokens + f.prompt_tokens,
                !.completion_tokens = row.completion_tokens + f.completion_tokens,
                !.total_tokens = row.total_tokens + f.total_tokens,
                !.total_cost = FloatAdd(row.total_cost, f.total_cost),
                !.request_count = row.request_count + 1]

\* Mutant: the statement replaces the rows of the table by the new row.
UpsertDailyUsageReplacing(table, f) == << DailyUsageValues(f) >>

UpsertDailyUsage(table, f) ==
    LET new == DailyUsageValues(f)
        hit == {i \in 1..Len(table) : DailyUsageConflict(table[i], new)}
    IN  IF hit = {} THEN Append(table, new)
        ELSE [i \in 1..Len(table) |->
                 IF i \in hit THEN DailyUsageSet(table[i], f) ELSE table[i]]

\* Mutant: the monthly total_cost is left at the column default.
MonthlyUsageValuesNoCost(f) ==
    [year_month |-> f.year_month, user_id |-> f.user_id, provider |-> f.provider,
     model_id |-> f.model_id, prompt_tokens |-> f.prompt_tokens,
     completion_tokens |-> f.completion_tokens, total_tokens |-> f.total_tokens,
     total_cost |-> 0, request_count |-> 1]

MonthlyUsageValues(f) ==
    [year_month |-> f.year_month, user_id |-> f.user_id, provider |-> f.provider,
     model_id |-> f.model_id, prompt_tokens |-> f.prompt_tokens,
     completion_tokens |-> f.completion_tokens, total_tokens |-> f.total_tokens,
     total_cost |-> f.total_cost, request_count |-> 1]

\* Mutant: the monthly request_count is not incremented.
MonthlyUsageSetKeepsCount(row, f) ==
    [row EXCEPT !.provider = f.provider,
                !.prompt_tokens = row.prompt_tokens + f.prompt_tokens,
                !.completion_tokens = row.completion_tokens + f.completion_tokens,
                !.total_tokens = row.total_tokens + f.total_tokens,
                !.total_cost = FloatAdd(row.total_cost, f.total_cost)]

MonthlyUsageSet(row, f) ==
    [row EXCEPT !.provider = f.provider,
                !.prompt_tokens = row.prompt_tokens + f.prompt_tokens,
                !.completion_tokens = row.completion_tokens + f.completion_tokens,
                !.total_tokens = row.total_tokens + f.total_tokens,
                !.total_cost = FloatAdd(row.total_cost, f.total_cost),
                !.request_count = row.request_count + 1]

UpsertMonthlyUsage(table, f) ==
    LET new == MonthlyUsageValues(f)
        hit == {i \in 1..Len(table) : MonthlyUsageConflict(table[i], new)}
    IN  IF hit = {} THEN Append(table, new)
        ELSE [i \in 1..Len(table) |->
                 IF i \in hit THEN MonthlyUsageSet(table[i], f) ELSE table[i]]

(***************************************************************************)
(* State.                                                                  *)
(*   db        the committed contents of the three tables                  *)
(*   writer    the call whose connection holds the database write lock,    *)
(*             0 when no write transaction is open                         *)
(*   calls     the frames of the track_usage calls that have not returned, *)
(*             by call number; a call on a caller's db_session that was    *)
(*             left with an open transaction stays, at pc = "end", for as  *)
(*             long as that session lives                                  *)
(*   ncalls    the number of calls made so far                             *)
(*   committed the events whose transaction committed, in commit order     *)
(*             (history)                                                   *)
(*   returned  the number of calls that have returned normally (history)   *)
(*   reply     what the step just taken returned to the caller of a query; *)
(*             NoReply after every other step                              *)
(***************************************************************************)
VARIABLES db, writer, calls, ncalls, committed, returned, reply

vars == <<db, writer, calls, ncalls, committed, returned, reply>>

NoReply == [op |-> "none", status |-> "none", args |-> << >>,
            ids |-> << >>, rows |-> << >>]

\* The route get_full_user_usage is between two of its three queries.
Reading == reply.op = "get_full_user_usage" /\ reply.status \in {"daily", "monthly"}

\* What a step of track_usage leaves of reply: the lists a route has read so
\* far are its own, an answer already given is gone.
Unanswered == IF Reading THEN reply ELSE NoReply

Init ==
    /\ db = EmptyDb
    /\ writer = 0
    /\ calls = << >>
    /\ ncalls = 0
    /\ committed = << >>
    /\ returned = 0
    /\ reply = NoReply

Running == DOMAIN calls

\* The frame of a call after lines 28-36: close_session, total_tokens, now,
\* usage_date and year_month are set; the next await is the session upsert.
\* An event always carries its timestamp: the clock reading stands in for an
\* absent usage_datetime.
\*   pc      the await the call is suspended at, "end" once it has returned
\*   result  how the call ends: "ok", "error" (raised) or "cancelled"
\*   in_tx   the connection of db_session has an open write transaction
\*   view    the tables as that transaction sees them: the committed rows
\*           and its own staged writes
\*   base    the committed tables when the open transaction began (history)
\*   staged  the tables this call has written, in order (history)
Frame(ev, own) ==
    LET now == ev.usage_datetime
        usage_date == date(now)
    IN  [session_id |-> ev.session_id, user_id |-> ev.user_id,
         provider |-> ev.provider, model_id |-> ev.model_id,
         prompt_tokens |-> ev.prompt_tokens,
         completion_tokens |-> ev.completion_tokens,
         input_cost |-> ev.input_cost, output_cost |-> ev.output_cost,
         total_cost |-> ev.total_cost, currency |-> ev.currency,
         close_session |-> own,
         total_tokens |-> ev.prompt_tokens + ev.completion_tokens,
         now |-> now,
         usage_date |-> usage_date,
         year_month |-> FormatYearMonth(usage_date),
         pc |-> "session", result |-> "pending",
         in_tx |-> FALSE, view |-> EmptyDb, base |-> EmptyDb, staged |-> << >>]

\* The event a frame was called with.
EventOf(f) ==
    Event(f.session_id, f.user_id, f.provider, f.model_id, f.prompt_tokens,
          f.completion_tokens, f.input_cost, f.output_cost, f.total_cost,
          f.currency, f.now)

\* calls with the frame of c replaced by f, or dropped once c has returned
\* and left no transaction open.
Put(c, f) ==
    IF f.pc = "end" /\ ~f.in_tx
    THEN [d \in Running \ {c} |-> calls[d]]
    ELSE [d \in Running |-> IF d = c THEN f ELSE calls[d]]

\* Call c goes on with frame f; a call that reaches "end" with the result
\* "ok" has returned normally.
Continue(c, f) ==
    /\ calls' = Put(c, f)
    /\ returned' = IF f.pc = "end" /\ f.result = "ok" THEN returned + 1 ELSE returned

\* Call c goes on with frame f and no route answers in the step.
Leave(c, f) ==
    /\ Continue(c, f)
    /\ reply' = Unanswered

\* A caller invokes track_usage, without a db_session (own) or with one.
Begin(ev, own) ==
    /\ ncalls < MaxCalls
    /\ ncalls' = ncalls + 1
    /\ calls' = [d \in Running \cup {ncalls + 1} |->
                    IF d = ncalls + 1 THEN Frame(ev, own) ELSE calls[d]]
    /\ reply' = Unanswered
    /\ UNCHANGED <<db, writer, committed, returned>>

\* The tables a statement of call c runs against: the call's transaction,
\* begun by this statement if none is open.
ViewOf(c) == IF calls[c].in_tx THEN calls[c].view ELSE db

\* Mutant: the connection that holds the write lock waits for it as well.
CanWriteNotReentrant(c) == writer = 0

\* A write statement runs only while no other connection holds the write
\* lock; until then the call stays suspended (or fails, see Fail).
CanWrite(c) == writer \in {0, c}

\* The frame of c once a statement has staged v in its transaction.
Stage(c, table, v) ==
    [calls[c] EXCEPT !.in_tx = TRUE,
                     !.view = v,
                     !.base = IF calls[c].in_tx THEN @ ELSE db,
                     !.staged = Append(@, table)]

ExecSession(c) ==
    /\ calls[c].pc = "session"
    /\ CanWrite(c)
    /\ Leave(c, [Stage(c, "session_usage",
                              [ViewOf(c) EXCEPT !.session_usage =
                                  UpsertSessionUsage(@, calls[c])])
                          EXCEPT !.pc = "daily"])
    /\ writer' = c
    /\ UNCHANGED <<db, ncalls, committed>>

ExecDaily(c) ==
    /\ calls[c].pc = "daily"
    /\ CanWrite(c)
    /\ Leave(c, [Stage(c, "daily_usage",
                              [ViewOf(c) EXCEPT !.daily_usage =
                                  UpsertDailyUsage(@, calls[c])])
                          EXCEPT !.pc = "monthly"])
    /\ writer' = c
    /\ UNCHANGED <<db, ncalls, committed>>

ExecMonthly(c) ==
    /\ calls[c].pc = "monthly"
    /\ CanWrite(c)
    /\ Leave(c, [Stage(c, "monthly_usage",
                              [ViewOf(c) EXCEPT !.monthly_usage =
                                  UpsertMonthlyUsage(@, calls[c])])
                          EXCEPT !.pc = "commit"])
    /\ writer' = c
    /\ UNCHANGED <<db, ncalls, committed>>

\* The frame of c once its session has no transaction any more.
EndTx(c) ==
    [calls[c] EXCEPT !.in_tx = FALSE, !.view = EmptyDb, !.base = EmptyDb]

\* Mutant: finally closes the session of the caller as well.
AfterTryClosesAny(c) == "close"

\* The pc after the try statement: finally closes a session the call opened.
AfterTry(c) == IF calls[c].close_session THEN "close" ELSE "end"

\* Mutant: the monthly write is not part of what the commit makes durable.
CommitTxWithoutMonthly(c) ==
    [ViewOf(c) EXCEPT !.monthly_usage = db.monthly_usage]

\* What the store holds once the transaction of call c has committed.
CommitTx(c) == ViewOf(c)

\* await db_session.commit(): the staged writes become the committed state.
Commit(c) ==
    /\ calls[c].pc = "commit"
    /\ db' = CommitTx(c)
    /\ writer' = IF writer = c THEN 0 ELSE writer
    /\ committed' = Append(committed, EventOf(calls[c]))
    /\ Leave(c, [EndTx(c) EXCEPT !.pc = AfterTry(c), !.result = "ok"])
    /\ UNCHANGED ncalls

\* Mutant: the session write survives the rollback.
RollbackTxKeepsSession(c) ==
    [db EXCEPT !.session_usage = ViewOf(c).session_usage]

\* What the store holds once the transaction of call c has been rolled back.
RollbackTx(c) == db

\* Mutant: the except clause swallows the exception.
RaisedSwallowed(c) == [EndTx(c) EXCEPT !.pc = AfterTry(c), !.result = "ok"]

\* The frame of c once the except clause has rolled back and raised again.
Raised(c) == [EndTx(c) EXCEPT !.pc = AfterTry(c), !.result = "error"]

\* The awaited statement or the commit raises (I/O error, constraint
\* violation, "database is locked" after the busy timeout): the except
\* clause rolls the session back and raises again.
Fail(c) ==
    /\ calls[c].pc \in {"session", "daily", "monthly", "commit"}
    /\ db' = RollbackTx(c)
    /\ writer' = IF writer = c THEN 0 ELSE writer
    /\ Leave(c, Raised(c))
    /\ UNCHANGED <<ncalls, committed>>

\* The task is cancelled while suspended in the try block (the caller
\* abandons the call or a timeout around it expires).  CancelledError is
\* not an Exception: the except clause is skipped, only finally runs.
Cancel(c) ==
    /\ calls[c].pc \in {"session", "daily", "monthly", "commit"}
    /\ Leave(c, [calls[c] EXCEPT !.pc = AfterTry(c), !.result = "cancelled"])
    /\ UNCHANGED <<db, writer, ncalls, committed>>

\* finally: await db_session.close() for a session the call opened itself.
\* Closing releases the connection, which discards an open transaction.
CloseSession(c) ==
    /\ calls[c].pc = "close"
    /\ writer' = IF writer = c THEN 0 ELSE writer
    /\ Continue(c, [EndTx(c) EXCEPT !.pc = "end"])
    /\ UNCHANGED <<db, ncalls, committed>>

\* The call returns to a caller that answers no route.
Close(c) ==
    /\ CloseSession(c)
    /\ reply' = Unanswered

Next ==
    \/ \E ev \in Events, own \in BOOLEAN : Begin(ev, own)
    \/ \E c \in Running : ExecSession(c)
    \/ \E c \in Running : ExecDaily(c)
    \/ \E c \in Running : ExecMonthly(c)
    \/ \E c \in Running : Commit(c)
    \/ \E c \in Running : Fail(c)
    \/ \E c \in Running : Cancel(c)
    \/ \E c \in Running : Close(c)

Spec == Init /\ [][Next]_vars

\* Call c is suspended at a write statement that waits for the write lock.
Waiting(c) ==
    /\ c \in Running
    /\ calls[c].pc \in {"session", "daily", "monthly"}
    /\ ~CanWrite(c)

\* The step the event loop resumes call c with once its await can complete.
Progress(c) ==
    /\ c \in Running
    /\ ExecSession(c) \/ ExecDaily(c) \/ ExecMonthly(c) \/ Commit(c) \/ Close(c)

\* The statement of a waiting call gives up after the busy timeout of the
\* connection: "database is locked".
BusyTimeout(c) == Waiting(c) /\ Fail(c)

\* The events of concurrent requests: one of the first session, one of the
\* second, with different days and models.
LiveEvents ==
    {ev \in Events : ev.user_id = "user-1" /\ ev.provider # "google"
                        /\ ev.usage_datetime.hour # 9}

\* The calls of Next over these events.
NextLive ==
    \/ \E ev \in LiveEvents, own \in BOOLEAN : Begin(ev, own)
    \/ \E c \in Running : ExecSession(c)
    \/ \E c \in Running : ExecDaily(c)
    \/ \E c \in Running : ExecMonthly(c)
    \/ \E c \in Running : Commit(c)
    \/ \E c \in Running : Fail(c)
    \/ \E c \in Running : Cancel(c)
    \/ \E c \in Running : Close(c)

\* The event loop resumes every call whose await can complete, and a
\* statement that waits for the lock does not wait beyond the busy timeout.
SpecLive ==
    /\ Init
    /\ [][NextLive]_vars
    /\ \A c \in 1..MaxCalls : WF_vars(Progress(c)) /\ WF_vars(BusyTimeout(c))

(***************************************************************************)
(* The query service.                                                      *)
(*                                                                         *)
(* A query is one SELECT: it reads the committed tables in one step.  Its  *)
(* result is the list of the selected rows; where ORDER BY leaves two rows *)
(* tied, SQLite may return them in either order.  An absent (None)         *)
(* argument is None for a string, NoDate for a date and NoYearMonth for a  *)
(* "YYYY-MM" string; the empty string is "" and << >>.                     *)
(***************************************************************************)
NoDate == [year |-> 0, month |-> 0, day |-> 0]

NoYearMonth == << None >>

\* Python truthiness of an optional string / "YYYY-MM" string argument.
Truthy(x) == x # None /\ x # ""

TruthyYearMonth(ym) == ym # NoYearMonth /\ ym # << >>

\* Three-way comparison of integers.
CmpInt(a, b) == IF a < b THEN 0 - 1 ELSE IF a > b THEN 1 ELSE 0

\* The first comparison of a list that is not a tie.
FirstNonZero(cs) ==
    IF \A i \in DOMAIN cs : cs[i] = 0 THEN 0
    ELSE cs[CHOOSE i \in DOMAIN cs : cs[i] # 0 /\ \A j \in 1..(i - 1) : cs[j] = 0]

\* Comparison of Date columns.
CmpDate(a, b) ==
    FirstNonZero(<<CmpInt(a.year, b.year), CmpInt(a.month, b.month),
                   CmpInt(a.day, b.day)>>)

\* Comparison of DateTime columns.
CmpDateTime(a, b) ==
    FirstNonZero(<<CmpDate(date(a), date(b)), CmpInt(a.hour, b.hour)>>)

\* The strings in use, in the order of SQLite's BINARY collation (memcmp
\* of the bytes).
Collation ==
    <<"", "EUR", "USD", "claude-3", "google", "gpt-4", "openai",
      "session-1", "session-2", "session-9", "user-1", "user-2", "vertex">>

\* Comparison of String columns; NULL sorts before every string.
CmpText(a, b) ==
    LET ord(x) == IF x = None THEN 0
                  ELSE CHOOSE i \in DOMAIN Collation : Collation[i] = x
    IN  CmpInt(ord(a), ord(b))

\* The characters of a "YYYY-MM" string in byte order.
CharOrder == <<"-">> \o Digits

RECURSIVE CmpChars(_, _)
\* Comparison of strings kept as sequences of characters.
CmpChars(a, b) ==
    IF a = << >> \/ b = << >> THEN CmpInt(Len(a), Len(b))
    ELSE LET ord(ch) == CHOOSE i \in DOMAIN CharOrder : CharOrder[i] = ch
             c == CmpInt(ord(Head(a)), ord(Head(b)))
         IN  IF c # 0 THEN c ELSE CmpChars(Tail(a), Tail(b))

\* The lists without repetition of the elements of S.
Perms(S) ==
    {s \in [1..Cardinality(S) -> S] : \A i, j \in DOMAIN s : s[i] = s[j] => i = j}

\* The orders in which a SELECT may return the rows ids under an ORDER BY
\* clause that compares row a with row b as cmp[a, b].
OrderBy(ids, cmp) ==
    {s \in Perms(ids) :
        \A i, j \in DOMAIN s : i < j => cmp[s[i], s[j]] <= 0}

\* order_by(SessionUsage.created_at.asc())
SessionOrderCmp(a, b) == CmpDateTime(a.created_at, b.created_at)

\* Mutant: the daily rows are returned by ascending date.
DailyOrderCmpAscending(a, b) ==
    FirstNonZero(<<CmpDate(a.date, b.date),
                   CmpText(a.user_id, b.user_id),
                   CmpText(a.model_id, b.model_id),
                   CmpText(a.provider, b.provider)>>)

\* order_by(date.desc(), user_id, model_id, provider)
DailyOrderCmp(a, b) ==
    FirstNonZero(<<0 - CmpDate(a.date, b.date),
                   CmpText(a.user_id, b.user_id),
                   CmpText(a.model_id, b.model_id),
                   CmpText(a.provider, b.provider)>>)

\* Mutant: the session rows of a user are ordered by session first.
UserSessionOrderCmpSessionFirst(a, b) ==
    FirstNonZero(<<CmpText(a.session_id, b.session_id),
                   0 - CmpDate(a.usage_date, b.usage_date),
                   CmpText(a.model_id, b.model_id),
                   CmpText(a.provider, b.provider)>>)

\* order_by(usage_date.desc(), session_id, model_id, provider)
UserSessionOrderCmp(a, b) ==
    FirstNonZero(<<0 - CmpDate(a.usage_date, b.usage_date),
                   CmpText(a.session_id, b.session_id),
                   CmpText(a.model_id, b.model_id),
                   CmpText(a.provider, b.provider)>>)

\* Mutant: the monthly rows are ordered by model before provider.
MonthlyOrderCmpModelFirst(a, b) ==
    FirstNonZero(<<0 - CmpChars(a.year_month, b.year_month),
                   CmpText(a.model_id, b.model_id),
                   CmpText(a.provider, b.provider)>>)

\* order_by(year_month.desc(), provider, model_id)
MonthlyOrderCmp(a, b) ==
    FirstNonZero(<<0 - CmpChars(a.year_month, b.year_month),
                   CmpText(a.provider, b.provider),
                   CmpText(a.model_id, b.model_id)>>)

\* Mutant: rows of every session are selected.
SessionUsageWhereAny(row, session_id) == TRUE

\* where(SessionUsage.session_id == session_id)
SessionUsageWhere(row, session_id) == row.session_id = session_id

\* The lists get_session_usage may return, as row ids.
GetSessionUsage(d, session_id) ==
    LET table == d.session_usage
    IN  OrderBy({i \in DOMAIN table : SessionUsageWhere(table[i], session_id)},
                [a, b \in DOMAIN table |-> SessionOrderCmp(table[a], table[b])])

\* The lists get_all_users_daily_usage may return, as row ids.
GetAllUsersDailyUsage(d, start_date, end_date, provider, model_id, user_id) ==
    LET table == d.daily_usage
        where(row) ==
            /\ start_date # NoDate => CmpDate(row.date, start_date) >= 0
            /\ end_date # NoDate => CmpDate(row.date, end_date) <= 0
            /\ Truthy(provider) => row.provider = provider
            /\ Truthy(model_id) => row.model_id = model_id
            /\ Truthy(user_id) => row.user_id = user_id
    IN  OrderBy({i \in DOMAIN table : where(table[i])},
                [a, b \in DOMAIN table |-> DailyOrderCmp(table[a], table[b])])

\* get_daily_usage: one day, or every day when usage_date is None.
GetDailyUsage(d, usage_date, provider, model_id, user_id) ==
    IF usage_date # NoDate
    THEN GetAllUsersDailyUsage(d, usage_date, usage_date, provider, model_id, user_id)
    ELSE GetAllUsersDailyUsage(d, NoDate, NoDate, provider, model_id, user_id)

GetUserDailyUsage(d, user_id, start_date, end_date, provider, model_id) ==
    GetAllUsersDailyUsage(d, start_date, end_date, provider, model_id, user_id)

\* select(SessionUsage).where(SessionUsage.user_id == user_id)
UserSessionWhereUser(row, user_id) == row.user_id = user_id

\* The lists get_user_session_usage may return, as row ids.
GetUserSessionUsage(d, user_id, start_date, end_date, provider, model_id) ==
    LET table == d.session_usage
        where(row) ==
            /\ UserSessionWhereUser(row, user_id)
            /\ start_date # NoDate => CmpDate(row.usage_date, start_date) >= 0
            /\ end_date # NoDate => CmpDate(row.usage_date, end_date) <= 0
            /\ Truthy(provider) => row.provider = provider
            /\ Truthy(model_id) => row.model_id = model_id
    IN  OrderBy({i \in DOMAIN table : where(table[i])},
                [a, b \in DOMAIN table |-> UserSessionOrderCmp(table[a], table[b])])

\* The lists get_monthly_usage may return, as row ids.
GetMonthlyUsage(d, year_month, provider, model_id, user_id) ==
    LET table == d.monthly_usage
        where(row) ==
            /\ TruthyYearMonth(year_month) => row.year_month = year_month
            /\ Truthy(provider) => row.provider = provider
            /\ Truthy(model_id) => row.model_id = model_id
            /\ Truthy(user_id) => row.user_id = user_id
    IN  OrderBy({i \in DOMAIN table : where(table[i])},
                [a, b \in DOMAIN table |-> MonthlyOrderCmp(table[a], table[b])])

\* The arguments of a query, absent ones included.
Args(session_id, user_id, start_date, end_date, provider, model_id, year_month) ==
    [session_id |-> session_id, user_id |-> user_id,
     start_date |-> start_date, end_date |-> end_date,
     provider |-> provider, model_id |-> model_id, year_month |-> year_month]

\* The rows ids of table as the list of objects a query returns.
RowsOf(table, ids) == [n \in DOMAIN ids |-> table[ids[n]]]

\* Mutant: the session of the query deletes the rows it has loaded.
ReturnConsuming(op, args, table, ids) ==
    /\ reply' = [op |-> op, status |-> "ok", args |-> args,
                 ids |-> ids, rows |-> RowsOf(table, ids)]
    /\ db' = [t \in DOMAIN db |->
                 IF db[t] = table
                 THEN SelectSeq(table, LAMBDA r : \A n \in DOMAIN ids : table[ids[n]] # r)
                 ELSE db[t]]
    /\ UNCHANGED <<writer, calls, ncalls, committed, returned>>

\* A query function returns the rows ids of table to its caller.
Return(op, args, table, ids) ==
    /\ reply' = [op |-> op, status |-> "ok", args |-> args,
                 ids |-> ids, rows |-> RowsOf(table, ids)]
    /\ UNCHANGED <<db, writer, calls, ncalls, committed, returned>>

\* The arguments the queries are called with.
QueryDates == {NoDate, [year |-> 2024, month |-> 5, day |-> 1],
               [year |-> 2024, month |-> 5, day |-> 2]}

QueryProviders == {None, "openai"}

QueryModels == {None, "gpt-4"}

QueryUsers == {"", "user-1"}

QueryYearMonths ==
    {NoYearMonth, FormatYearMonth([year |-> 2024, month |-> 5, day |-> 1])}

QuerySessions == {"session-1", "session-2", "session-9"}

\* What a connection would read if it saw the writes staged by the
\* transaction that holds the write lock.
Uncommitted == IF writer \in Running THEN ViewOf(writer) ELSE db

\* Mutant: the query reads the staged writes of the running transaction.
QuerySessionUncommitted ==
    \E session_id \in QuerySessions :
        \E ids \in GetSessionUsage(Uncommitted, session_id) :
            /\ reply' = [op |-> "get_session_usage", status |-> "ok",
                         args |-> Args(session_id, None, NoDate, NoDate, None, None,
                                       NoYearMonth),
                         ids |-> ids, rows |-> RowsOf(Uncommitted.session_usage, ids)]
            /\ UNCHANGED <<db, writer, calls, ncalls, committed, returned>>

QuerySession ==
    \E session_id \in QuerySessions :
        \E ids \in GetSessionUsage(db, session_id) :
            Return("get_session_usage",
                   Args(session_id, None, NoDate, NoDate, None, None, NoYearMonth),
                   db.session_usage, ids)

QueryDaily ==
    \E usage_date \in QueryDates, provider \in QueryProviders,
       model_id \in QueryModels, user_id \in QueryUsers \cup {None} :
        \E ids \in GetDailyUsage(db, usage_date, provider, model_id, user_id) :
            Return("get_daily_usage",
                   Args(None, user_id, usage_date, usage_date, provider, model_id,
                        NoYearMonth),
                   db.daily_usage, ids)

QueryUserDaily ==
    \E user_id \in QueryUsers, start_date \in QueryDates, end_date \in QueryDates,
       provider \in QueryProviders, model_id \in QueryModels :
        \E ids \in GetUserDailyUsage(db, user_id, start_date, end_date,
                                     provider, model_id) :
            Return("get_user_daily_usage",
                   Args(None, user_id, start_date, end_date, provider, model_id,
                        NoYearMonth),
                   db.daily_usage, ids)

QueryAllUsersDaily ==
    \E start_date \in QueryDates, end_date \in QueryDates,
       provider \in QueryProviders, model_id \in QueryModels,
       user_id \in QueryUsers \cup {None} :
        \E ids \in GetAllUsersDailyUsage(db, start_date, end_date, provider,
                                         model_id, user_id) :
            Return("get_all_users_daily_usage",
                   Args(None, user_id, start_date, end_date, provider, model_id,
                        NoYearMonth),
                   db.daily_usage, ids)

QueryUserSession ==
    \E user_id \in QueryUsers, start_date \in QueryDates, end_date \in QueryDates,
       provider \in QueryProviders, model_id \in QueryModels :
        \E ids \in GetUserSessionUsage(db, user_id, start_date, end_date,
                                       provider, model_id) :
            Return("get_user_session_usage",
                   Args(None, user_id, start_date, end_date, provider, model_id,
                        NoYearMonth),
                   db.session_usage, ids)

QueryMonthly ==
    \E year_month \in QueryYearMonths, provider \in QueryProviders,
       model_id \in QueryModels, user_id \in QueryUsers \cup {None} :
        \E ids \in GetMonthlyUsage(db, year_month, provider, model_id, user_id) :
            Return("get_monthly_usage",
                   Args(None, user_id, NoDate, NoDate, provider, model_id,
                        year_month),
                   db.monthly_usage, ids)

RECURSIVE Sum(_, _)
\* sum(entry.field for entry in seq)
Sum(seq, field) ==
    IF seq = << >> THEN 0 ELSE Head(seq)[field] + Sum(Tail(seq), field)

\* round(x, ndigits) of a cost x kept in hundredths: the nearest multiple
\* of 10^-ndigits, ties to even, again in hundredths.
Round(x, ndigits) ==
    LET scale == 10 ^ ndigits
        q == (x * scale) \div 100
        r == (x * scale) % 100
        n == IF 2 * r > 100 \/ (2 * r = 100 /\ q % 2 = 1) THEN q + 1 ELSE q
    IN  (n * 100) \div scale

\* The user ids that reach the router as a path parameter.
PathUsers == {"user-1", "user-2"}

\* Mutant: the session rows are added on top of the daily rows.
TotalsSourceWithSessions(daily_entries, session_entries) ==
    daily_entries \o session_entries

\* The entries the totals of the full history are summed over.
TotalsSource(daily_entries, session_entries) == daily_entries

\* The answer of get_full_user_usage to the three lists it has read.
UserUsageHistory(args, daily, daily_entries, monthly_entries, session_entries) ==
    LET summed == TotalsSource(daily_entries, session_entries)
    IN  IF daily_entries = << >> /\ monthly_entries = << >>
           /\ session_entries = << >>
        THEN [op |-> "get_full_user_usage", status |-> "404",
              args |-> args, ids |-> << >>, rows |-> << >>]
        ELSE [op |-> "get_full_user_usage", status |-> "ok",
              args |-> args, ids |-> daily, rows |-> daily_entries,
              totals |->
                  [prompt_tokens |-> Sum(summed, "prompt_tokens"),
                   completion_tokens |-> Sum(summed, "completion_tokens"),
                   total_tokens |-> Sum(summed, "total_tokens")],
              total_cost |-> Round(Sum(summed, "total_cost"), 6),
              monthly |-> monthly_entries,
              sessions |-> session_entries]

\* GET /usage/user/{user_id}/all, with no commit between its three queries.
FullUserUsage ==
    \E user_id \in PathUsers :
        \E daily \in GetUserDailyUsage(db, user_id, NoDate, NoDate, None, None),
           monthly \in GetMonthlyUsage(db, NoYearMonth, None, None, user_id),
           sessions \in GetUserSessionUsage(db, user_id, NoDate, NoDate, None, None) :
            /\ reply' = UserUsageHistory(
                            Args(None, user_id, NoDate, NoDate, None, None, NoYearMonth),
                            daily, RowsOf(db.daily_usage, daily),
                            RowsOf(db.monthly_usage, monthly),
                            RowsOf(db.session_usage, sessions))
            /\ UNCHANGED <<db, writer, calls, ncalls, committed, returned>>

\* GET /usage/user/{user_id}/all, query by query: each await lets other
\* requests run, and each SELECT reads the tables as committed when it runs
\* (the connection opens no transaction for a SELECT).  seen is the number
\* of events committed at each query (history).
FullUsageDaily ==
    /\ ~Reading
    /\ \E user_id \in PathUsers :
           \E daily \in GetUserDailyUsage(db, user_id, NoDate, NoDate, None, None) :
               reply' = [op |-> "get_full_user_usage", status |-> "daily",
                         args |-> Args(None, user_id, NoDate, NoDate, None, None,
                                       NoYearMonth),
                         ids |-> daily, rows |-> RowsOf(db.daily_usage, daily),
                         seen |-> <<Len(committed)>>]
    /\ UNCHANGED <<db, writer, calls, ncalls, committed, returned>>

FullUsageMonthly ==
    /\ Reading
    /\ reply.status = "daily"
    /\ \E monthly \in GetMonthlyUsage(db, NoYearMonth, None, None, reply.args.user_id) :
           reply' = [op |-> "get_full_user_usage", status |-> "monthly",
                     args |-> reply.args, ids |-> reply.ids, rows |-> reply.rows,
                     monthly |-> RowsOf(db.monthly_usage, monthly),
                     seen |-> Append(reply.seen, Len(committed))]
    /\ UNCHANGED <<db, writer, calls, ncalls, committed, returned>>

FullUsageSessions ==
    /\ Reading
    /\ reply.status = "monthly"
    /\ \E sessions \in GetUserSessionUsage(db, reply.args.user_id, NoDate, NoDate,
                                           None, None) :
           LET history == UserUsageHistory(reply.args, reply.ids, reply.rows,
                                           reply.monthly,
                                           RowsOf(db.session_usage, sessions))
           IN  reply' = [f \in DOMAIN history \cup {"seen"} |->
                            IF f = "seen" THEN Append(reply.seen, Len(committed))
                            ELSE history[f]]
    /\ UNCHANGED <<db, writer, calls, ncalls, committed, returned>>

\* The events submitted before the queries: Events and the event of a second
\* session of the first event's user, day and model.
QueryEvents ==
    Events \cup
    { Event("session-2", "user-1", "openai", "gpt-4", 30, 20, 30, 20, 50, "USD",
            DateTime(2024, 5, 1, 15)) }

\* No call is running and no query has just been answered.
Idle == calls = << >> /\ reply = NoReply

\* The calls that succeed on a session of their own, and the queries.  The
\* queries are taken one at a time between calls: the committed tables have
\* every content there that they can have, and a query changes nothing that
\* a later query reads.
NextQuery ==
    \/ \E ev \in QueryEvents : Begin(ev, TRUE)
    \/ \E c \in Running : ExecSession(c)
    \/ \E c \in Running : ExecDaily(c)
    \/ \E c \in Running : ExecMonthly(c)
    \/ \E c \in Running : Commit(c)
    \/ \E c \in Running : Close(c)
    \/ Idle /\ QuerySession
    \/ Idle /\ QueryDaily
    \/ Idle /\ QueryUserDaily
    \/ Idle /\ QueryAllUsersDaily
    \/ Idle /\ QueryUserSession
    \/ Idle /\ QueryMonthly
    \/ Idle /\ FullUserUsage

SpecQuery == Init /\ [][NextQuery]_vars

\* Every call of track_usage, on a session of its own or of the caller, with
\* its failures and cancellations, and the queries between the calls.
NextStore ==
    \/ Next
    \/ Idle /\ QuerySession
    \/ Idle /\ QueryDaily
    \/ Idle /\ QueryUserDaily
    \/ Idle /\ QueryAllUsersDaily
    \/ Idle /\ QueryUserSession
    \/ Idle /\ QueryMonthly
    \/ Idle /\ FullUserUsage

SpecStore == Init /\ [][NextStore]_vars

(***************************************************************************)
(* The routes of the usage router: what each answers to the list its       *)
(* query returned.                                                         *)
(***************************************************************************)
\* if not records: raise HTTPException(status_code=404), else the response
NotFoundIfEmpty(entries) == IF entries = << >> THEN "404" ELSE "200"

\* Mutant: the list routes refuse an empty list as the other routes do.
ListStatusNotFound(entries) == NotFoundIfEmpty(entries)

\* return [... for entry in entries]: the list as it is, empty or not
ListStatus(entries) == "200"

\* A route answers with a status and the rows its queries returned.
Answer(route, status, args, rows) ==
    /\ reply' = [op |-> route, status |-> status, args |-> args,
                 ids |-> << >>, rows |-> rows]
    /\ UNCHANGED <<db, writer, calls, ncalls, committed, returned>>

\* date.today() and datetime.utcnow() when a route reads the clock.
Todays == {[year |-> 2024, month |-> 5, day |-> 1],
           [year |-> 2024, month |-> 7, day |-> 1]}

\* The year_month path parameters.
PathYearMonths == {FormatYearMonth(today) : today \in Todays}

\* GET /usage/session/{session_id}
RouteSessionUsage ==
    \E session_id \in QuerySessions :
        \E ids \in GetSessionUsage(db, session_id) :
            LET records == RowsOf(db.session_usage, ids)
            IN  Answer("/usage/session/{session_id}", NotFoundIfEmpty(records),
                       Args(session_id, None, NoDate, NoDate, None, None, NoYearMonth),
                       records)

\* GET /usage/user/{user_id}
RouteUserDailyUsage ==
    \E user_id \in PathUsers, start_date \in QueryDates, end_date \in QueryDates,
       provider \in QueryProviders, model_id \in QueryModels :
        \E ids \in GetUserDailyUsage(db, user_id, start_date, end_date,
                                     provider, model_id) :
            LET entries == RowsOf(db.daily_usage, ids)
            IN  Answer("/usage/user/{user_id}", NotFoundIfEmpty(entries),
                       Args(None, user_id, start_date, end_date, provider, model_id,
                            NoYearMonth),
                       entries)

\* GET /usage/user/{user_id}/all
RouteFullUserUsage ==
    \E user_id \in PathUsers :
        \E daily \in GetUserDailyUsage(db, user_id, NoDate, NoDate, None, None),
           monthly \in GetMonthlyUsage(db, NoYearMonth, None, None, user_id),
           sessions \in GetUserSessionUsage(db, user_id, NoDate, NoDate, None, None) :
            LET entries == RowsOf(db.daily_usage, daily)
                               \o RowsOf(db.monthly_usage, monthly)
                               \o RowsOf(db.session_usage, sessions)
            IN  Answer("/usage/user/{user_id}/all", NotFoundIfEmpty(entries),
                       Args(None, user_id, NoDate, NoDate, None, None, NoYearMonth),
                       entries)

\* GET /usage/daily
RouteDailyUsage ==
    \E today \in Todays, provider \in QueryProviders, model_id \in QueryModels,
       user_id \in QueryUsers \cup {None} :
        \E ids \in GetDailyUsage(db, today, provider, model_id, user_id) :
            LET entries == RowsOf(db.daily_usage, ids)
            IN  Answer("/usage/daily", ListStatus(entries),
                       Args(None, user_id, today, today, provider, model_id,
                            NoYearMonth),
                       entries)

\* GET /usage/daily/{usage_date}
RouteDailyUsageForDate ==
    \E usage_date \in Todays, provider \in QueryProviders, model_id \in QueryModels,
       user_id \in QueryUsers \cup {None} :
        \E ids \in GetDailyUsage(db, usage_date, provider, model_id, user_id) :
            LET entries == RowsOf(db.daily_usage, ids)
            IN  Answer("/usage/daily/{usage_date}", ListStatus(entries),
                       Args(None, user_id, usage_date, usage_date, provider, model_id,
                            NoYearMonth),
                       entries)

\* GET /usage/monthly
RouteMonthlyUsage ==
    \E today \in Todays, provider \in QueryProviders, model_id \in QueryModels,
       user_id \in QueryUsers \cup {None} :
        \E ids \in GetMonthlyUsage(db, FormatYearMonth(today), provider, model_id,
                                   user_id) :
            LET entries == RowsOf(db.monthly_usage, ids)
            IN  Answer("/usage/monthly", ListStatus(entries),
                       Args(None, user_id, NoDate, NoDate, provider, model_id,
                            FormatYearMonth(today)),
                       entries)

\* GET /usage/monthly/{year_month}
RouteMonthlyUsageForPeriod ==
    \E year_month \in PathYearMonths, provider \in QueryProviders,
       model_id \in QueryModels, user_id \in QueryUsers \cup {None} :
        \E ids \in GetMonthlyUsage(db, year_month, provider, model_id, user_id) :
            LET entries == RowsOf(db.monthly_usage, ids)
            IN  Answer("/usage/monthly/{year_month}", ListStatus(entries),
                       Args(None, user_id, NoDate, NoDate, provider, model_id,
                            year_month),
                       entries)

\* The calls that succeed on a session of their own, and the requests to the
\* usage router between them.
NextRoutes ==
    \/ \E ev \in Events : Begin(ev, TRUE)
    \/ \E c \in Running : ExecSession(c)
    \/ \E c \in Running : ExecDaily(c)
    \/ \E c \in Running : ExecMonthly(c)
    \/ \E c \in Running : Commit(c)
    \/ \E c \in Running : Close(c)
    \/ Idle /\ RouteSessionUsage
    \/ Idle /\ RouteUserDailyUsage
    \/ Idle /\ RouteFullUserUsage
    \/ Idle /\ RouteDailyUsage
    \/ Idle /\ RouteDailyUsageForDate
    \/ Idle /\ RouteMonthlyUsage
    \/ Idle /\ RouteMonthlyUsageForPeriod

SpecRoutes == Init /\ [][NextRoutes]_vars

(***************************************************************************)
(* POST /chat/completions: create_chat_completion.                         *)
(***************************************************************************)
\* The model configurations: provider, output limit, and the prices of
\* 1000 tokens in hundredths.
ModelConfigs ==
    [m \in {"gpt-4"} |->
        [provider |-> "openai", max_output_tokens |-> 100,
         pricing |-> [input |-> 800, output |-> 1000, currency |-> "USD"]]]

\* calculate_cost: costs in hundredths, each rounded to 6 places.
CalculateCost(model, prompt_tokens, completion_tokens) ==
    LET pricing == ModelConfigs[model].pricing
        input_cost == Round((prompt_tokens * pricing.input) \div 1000, 6)
        output_cost == Round((completion_tokens * pricing.output) \div 1000, 6)
    IN  [input_cost |-> input_cost, output_cost |-> output_cost,
         total_cost |-> Round(input_cost + output_cost, 6),
         currency |-> pricing.currency]

\* max_tokens of a request that names none.
NoMaxTokens == << >>

\* validate_token_limits raises ValueError.
TokenLimitExceeded(model, max_tokens) ==
    /\ max_tokens # NoMaxTokens
    /\ max_tokens[1] > ModelConfigs[model].max_output_tokens

\* count_prompt_tokens of the messages of a request.
CountPromptTokens == 50

\* The tokens the provider reports to have completed.
ProviderCompletionTokens == 10

\* The clock when the handler records the usage.
ChatNow == DateTime(2024, 5, 1, 12)

\* The request bodies: a model that is configured or not, max_tokens absent
\* or beyond the limit.
ChatRequests ==
    [model : {"gpt-4", "gpt-9"}, max_tokens : {NoMaxTokens, <<200>>},
     session_id : {"session-1"}, user_id : {"user-1"}]

\* How the provider call ends: a completion, or an exception with this text.
ProviderOutcomes == {"completed", "insufficient_quota", "rate limit", "failure"}

\* The status of the HTTPException _map_service_error builds.
MapServiceError(message) ==
    IF message \in {"insufficient_quota", "rate limit"} THEN "429" ELSE "500"

\* Mutant: the usage of the simulated response counts completion tokens.
ChatEventProviderTokens(payload, outcome) ==
    LET completion_tokens == ProviderCompletionTokens
        cost == CalculateCost(payload.model, CountPromptTokens, completion_tokens)
    IN  Event(payload.session_id, payload.user_id,
              ModelConfigs[payload.model].provider, payload.model,
              CountPromptTokens, completion_tokens,
              cost.input_cost, cost.output_cost, cost.total_cost, cost.currency,
              ChatNow)

\* The keyword arguments of the track_usage call of the handler; the
\* simulated response for an exceeded quota has no completion tokens.
ChatEvent(payload, outcome) ==
    LET completion_tokens ==
            IF outcome = "insufficient_quota" THEN 0 ELSE ProviderCompletionTokens
        cost == CalculateCost(payload.model, CountPromptTokens, completion_tokens)
    IN  Event(payload.session_id, payload.user_id,
              ModelConfigs[payload.model].provider, payload.model,
              CountPromptTokens, completion_tokens,
              cost.input_cost, cost.output_cost, cost.total_cost, cost.currency,
              ChatNow)

\* What the route answers: a status, the call that recorded the usage (0 if
\* none did) and the usage reported.
ChatReply(status, c, usage) ==
    [op |-> "create_chat_completion", status |-> status, args |-> << >>,
     ids |-> <<c>>, rows |-> usage]

\* The request is refused before any usage is recorded.
ChatRaise(status) ==
    /\ reply' = ChatReply(status, 0, << >>)
    /\ UNCHANGED <<db, writer, calls, ncalls, committed, returned>>

\* The handler up to its await of track_usage, for a request and for what
\* the provider call does.
CreateChatCompletionOf(payload, outcome) ==
    IF payload.model \notin DOMAIN ModelConfigs
    THEN ChatRaise("404")
    ELSE IF TokenLimitExceeded(payload.model, payload.max_tokens)
    THEN ChatRaise("400")
    ELSE IF outcome \notin {"completed", "insufficient_quota"}
    THEN ChatRaise(MapServiceError(outcome))
    ELSE Begin(ChatEvent(payload, outcome), TRUE)

CreateChatCompletion ==
    \E payload \in ChatRequests, outcome \in ProviderOutcomes :
        CreateChatCompletionOf(payload, outcome)

\* Mutant: the handler answers 200 however track_usage ended.
ChatStatusSwallowing(result) == "200"

\* The status of the answer once the awaited track_usage has ended: the
\* response is built after a normal return, an exception of track_usage
\* leaves the handler (500), a cancelled request is not answered.
ChatStatus(result) ==
    CASE result = "ok" -> "200"
      [] result = "error" -> "500"
      [] OTHER -> "none"

\* track_usage ends and the handler, which awaits nothing more, answers.
ChatReturn(c) ==
    /\ CloseSession(c)
    /\ reply' = IF ChatStatus(calls[c].result) = "none"
                THEN NoReply
                ELSE ChatReply(ChatStatus(calls[c].result), c,
                               IF ChatStatus(calls[c].result) = "200"
                               THEN <<EventOf(calls[c])>> ELSE << >>)

NextChat ==
    \/ CreateChatCompletion
    \/ \E c \in Running : ExecSession(c)
    \/ \E c \in Running : ExecDaily(c)
    \/ \E c \in Running : ExecMonthly(c)
    \/ \E c \in Running : Commit(c)
    \/ \E c \in Running : Fail(c)
    \/ \E c \in Running : Cancel(c)
    \/ \E c \in Running : ChatReturn(c)

SpecChat == Init /\ [][NextChat]_vars

\* The events of one user's session, submitted while the queries run.
ReadEvents == {ev \in Events : ev.session_id = "session-1" /\ ev.user_id = "user-1"}

\* The calls on a session of their own, committing or failing, and queries
\* on sessions of their own at any moment: the route GET /usage/session/{id}
\* while POST /chat/completions records usage.
NextRead ==
    \/ \E ev \in ReadEvents : Begin(ev, TRUE)
    \/ \E c \in Running : ExecSession(c)
    \/ \E c \in Running : ExecDaily(c)
    \/ \E c \in Running : ExecMonthly(c)
    \/ \E c \in Running : Commit(c)
    \/ \E c \in Running : Fail(c)
    \/ \E c \in Running : Close(c)
    \/ QuerySession

SpecRead == Init /\ [][NextRead]_vars

\* The events of one session over a day: two requests for one model, three
\* hours apart, and between them a request for another model.
MergeEvents ==
    { Event("session-1", "user-1", "openai", "gpt-4", 50, 10, 40, 10, 50, "USD",
            DateTime(2024, 5, 1, 12)),
      Event("session-1", "user-1", "vertex", "claude-3", 40, 10, 32, 18, 50, "USD",
            DateTime(2024, 5, 1, 13)),
      Event("session-1", "user-1", "google", "gpt-4", 20, 5, 16, 8, 24, "EUR",
            DateTime(2024, 5, 1, 15)) }

\* The calls of one session, in any order and interleaving, and the route
\* GET /usage/session/{id} at any moment.
NextMerge ==
    \/ \E ev \in MergeEvents : Begin(ev, TRUE)
    \/ \E c \in Running : ExecSession(c)
    \/ \E c \in Running : ExecDaily(c)
    \/ \E c \in Running : ExecMonthly(c)
    \/ \E c \in Running : Commit(c)
    \/ \E c \in Running : Fail(c)
    \/ \E c \in Running : Close(c)
    \/ QuerySession

SpecMerge == Init /\ [][NextMerge]_vars

\* A write the caller of track_usage has made in its own db_session before
\* the call and has not committed: a usage row of another session.
CallerWork ==
    Event("session-0", "user-0", "openai", "gpt-4", 10, 5, 8, 4, 12, "USD",
          DateTime(2024, 5, 1, 9))

\* A caller invokes track_usage with a db_session that holds its pending
\* write: the transaction of the session is open, its connection has the
\* write lock, and its view is the committed rows and the caller's write.
BeginPending(ev) ==
    /\ ncalls < MaxCalls
    /\ writer = 0
    /\ ncalls' = ncalls + 1
    /\ writer' = ncalls + 1
    /\ calls' = [d \in Running \cup {ncalls + 1} |->
                    IF d = ncalls + 1
                    THEN [Frame(ev, FALSE) EXCEPT
                             !.in_tx = TRUE,
                             !.base = db,
                             !.view = [db EXCEPT !.session_usage =
                                          UpsertSessionUsage(@, Frame(CallerWork, FALSE))]]
                    ELSE calls[d]]
    /\ reply' = Unanswered
    /\ UNCHANGED <<db, committed, returned>>

\* The calls on sessions of their own and on sessions of their callers,
\* with and without pending work of the caller.
NextOwner ==
    \/ \E ev \in LiveEvents, own \in BOOLEAN : Begin(ev, own)
    \/ \E ev \in LiveEvents : BeginPending(ev)
    \/ \E c \in Running : ExecSession(c)
    \/ \E c \in Running : ExecDaily(c)
    \/ \E c \in Running : ExecMonthly(c)
    \/ \E c \in Running : Commit(c)
    \/ \E c \in Running : Fail(c)
    \/ \E c \in Running : Cancel(c)
    \/ \E c \in Running : Close(c)

SpecOwner == Init /\ [][NextOwner]_vars

\* The calls on a session of their own and the route GET /usage/user/{id}/all
\* running its three queries between their steps.
NextFull ==
    \/ \E ev \in ReadEvents : Begin(ev, TRUE)
    \/ \E c \in Running : ExecSession(c)
    \/ \E c \in Running : ExecDaily(c)
    \/ \E c \in Running : ExecMonthly(c)
    \/ \E c \in Running : Commit(c)
    \/ \E c \in Running : Fail(c)
    \/ \E c \in Running : Close(c)
    \/ FullUsageDaily
    \/ FullUsageMonthly
    \/ FullUsageSessions

SpecFull == Init /\ [][NextFull]_vars

\* Number of events committed in one behaviour of SpecOrder.
MaxEvents == 3

\* Events committed one after the other: three of one key whose costs add up
\* beyond what a Float keeps exactly, with different tokens, providers and
\* currencies, one of another session, day and model, and one without user_id.
OrderEvents ==
    { Event("session-1", "user-1", "openai", "gpt-4", 50, 10, 200, 55, 255, "USD",
            DateTime(2024, 5, 1, 12)),
      Event("session-1", "user-1", "google", "gpt-4", 20, 5, 1, 1, 2, "EUR",
            DateTime(2024, 5, 1, 12)),
      Event("session-1", "user-1", "openai", "gpt-4", 30, 20, 1, 0, 1, "USD",
            DateTime(2024, 5, 1, 12)),
      Event("session-2", "user-1", "vertex", "claude-3", 40, 10, 32, 18, 50, "USD",
            DateTime(2024, 5, 2, 15)),
      Event("session-1", None, "openai", "gpt-4", 50, 10, 40, 10, 50, "USD",
            DateTime(2024, 5, 1, 12)) }

\* A track_usage call that runs from its first line to its return while no
\* other call runs: the three upserts and the commit.
TrackUsage(ev) ==
    /\ Len(committed) < MaxEvents
    /\ calls = << >>
    /\ db' = [session_usage |-> UpsertSessionUsage(db.session_usage, Frame(ev, TRUE)),
              daily_usage |-> UpsertDailyUsage(db.daily_usage, Frame(ev, TRUE)),
              monthly_usage |-> UpsertMonthlyUsage(db.monthly_usage, Frame(ev, TRUE))]
    /\ committed' = Append(committed, ev)
    /\ returned' = returned + 1
    /\ reply' = NoReply
    /\ UNCHANGED <<writer, calls, ncalls>>

NextOrder == \E ev \in OrderEvents : TrackUsage(ev)

SpecOrder == Init /\ [][NextOrder]_vars

(***************************************************************************)
(* Vocabulary of the properties.                                           *)
(*                                                                         *)
(* Keys are compared here as values, an absent user_id being a value like  *)
(* any other: two events without user_id on the same day and model carry   *)
(* the same key.                                                           *)
(***************************************************************************)
Tables == {"session_usage", "daily_usage", "monthly_usage"}

\* The calendar month of a timestamp or date.
MonthOf(t) == <<t.year, t.month>>

DigitValue(ch) == CHOOSE n \in 0..9 : Digits[n + 1] = ch

\* The calendar month a "YYYY-MM" string names.
ParseYearMonth(ym) ==
    << 1000 * DigitValue(ym[1]) + 100 * DigitValue(ym[2])
         + 10 * DigitValue(ym[3]) + DigitValue(ym[4]),
       10 * DigitValue(ym[6]) + DigitValue(ym[7]) >>

SessionKeyOfEvent(e) == <<e.session_id, e.user_id, date(e.usage_datetime), e.model_id>>
DailyKeyOfEvent(e) == <<date(e.usage_datetime), e.user_id, e.model_id>>
MonthlyKeyOfEvent(e) == <<MonthOf(e.usage_datetime), e.user_id, e.model_id>>

SessionKeyOfRow(r) == <<r.session_id, r.user_id, r.usage_date, r.model_id>>
DailyKeyOfRow(r) == <<r.date, r.user_id, r.model_id>>
MonthlyKeyOfRow(r) ==
    <<IF Len(r.year_month) = 7 /\ r.year_month[5] = "-"
         THEN ParseYearMonth(r.year_month) ELSE <<0, 0>>,
      r.user_id, r.model_id>>

KeyOfEvent(t, e) ==
    CASE t = "session_usage" -> SessionKeyOfEvent(e)
      [] t = "daily_usage" -> DailyKeyOfEvent(e)
      [] t = "monthly_usage" -> MonthlyKeyOfEvent(e)

KeyOfRow(t, r) ==
    CASE t = "session_usage" -> SessionKeyOfRow(r)
      [] t = "daily_usage" -> DailyKeyOfRow(r)
      [] t = "monthly_usage" -> MonthlyKeyOfRow(r)

\* The committed events that carry key k of table t, in commit order.
EventsOfKey(t, k) == SelectSeq(committed, LAMBDA e : KeyOfEvent(t, e) = k)

\* The positions of the rows of table t of store d that carry key k.
RowsOfKey(d, t, k) == {i \in 1..Len(d[t]) : KeyOfRow(t, d[t][i]) = k}

\* The total_tokens of an event.
TotalTokens(e) == e.prompt_tokens + e.completion_tokens

RECURSIVE SumTotalTokens(_)
SumTotalTokens(evs) ==
    IF evs = << >> THEN 0 ELSE TotalTokens(Head(evs)) + SumTotalTokens(Tail(evs))

\* Row r holds the sums of the events evs in the numeric fields its table has.
HoldsSums(t, r, evs) ==
    /\ r.prompt_tokens = Sum(evs, "prompt_tokens")
    /\ r.completion_tokens = Sum(evs, "completion_tokens")
    /\ r.total_tokens = SumTotalTokens(evs)
    /\ r.total_cost = Sum(evs, "total_cost")
    /\ t = "session_usage" =>
          /\ r.input_cost = Sum(evs, "input_cost")
          /\ r.output_cost = Sum(evs, "output_cost")
    /\ t # "session_usage" => r.request_count = Len(evs)

\* Call c commits in this step.
Commits(c) ==
    /\ c \in Running
    /\ calls[c].pc = "commit"
    /\ committed' = Append(committed, EventOf(calls[c]))

\* The step changes the frame of call c, or c returns in it.
StepOf(c) == c \in Running /\ (c \notin DOMAIN calls' \/ calls'[c] # calls[c])

RECURSIVE Aggregate(_)
\* The three tables after merging the events evs, one after the other, each
\* into all three tables.
Aggregate(evs) ==
    IF evs = << >> THEN EmptyDb
    ELSE LET d == Aggregate(SubSeq(evs, 1, Len(evs) - 1))
             f == Frame(evs[Len(evs)], TRUE)
         IN  [session_usage |-> UpsertSessionUsage(d.session_usage, f),
              daily_usage |-> UpsertDailyUsage(d.daily_usage, f),
              monthly_usage |-> UpsertMonthlyUsage(d.monthly_usage, f)]

(***************************************************************************)
(* C1  No lost update.  For every key that committed events carry, in      *)
(* each table, the row of that key holds the sums of the prompt,           *)
(* completion and total tokens and of the costs of all the committed       *)
(* events with that key and, in the daily and monthly tables, a            *)
(* request_count equal to their number -- whatever the interleaving of the *)
(* calls was.                                                              *)
(***************************************************************************)
NoLostUpdate ==
    \A t \in Tables : \A n \in 1..Len(committed) :
        LET k == KeyOfEvent(t, committed[n])
        IN  \E i \in RowsOfKey(db, t, k) :
                HoldsSums(t, db[t][i], EventsOfKey(t, k))

\* The same for the keys that carry a user_id (not a claim of its own: it
\* shows what is left of C1 when the rows without user_id are set aside).
NoLostUpdateWithUser ==
    \A t \in Tables : \A n \in 1..Len(committed) :
        LET k == KeyOfEvent(t, committed[n])
        IN  committed[n].user_id # None =>
                \E i \in RowsOfKey(db, t, k) :
                    HoldsSums(t, db[t][i], EventsOfKey(t, k))

(***************************************************************************)
(* C2  All-or-nothing across views.  In every committed state the session, *)
(* daily and monthly tables are each the aggregation of one and the same   *)
(* sequence of events, the committed ones: no table reflects an event      *)
(* that another table does not.                                            *)
(***************************************************************************)
AllOrNothing ==
    /\ db = Aggregate(committed)
    /\ \A t \in Tables : Sum(db[t], "total_tokens") = SumTotalTokens(committed)
    /\ \A t \in Tables : Sum(db[t], "total_cost") = Sum(committed, "total_cost")
    /\ \A t \in Tables \ {"session_usage"} :
           Sum(db[t], "request_count") = Len(committed)

\* An event is committed and another call has failed after staging its
\* session write only.
AllOrNothingWitness ==
    /\ committed # << >>
    /\ \E c \in Running :
           /\ calls[c].result = "error"
           /\ calls[c].pc = "close"
           /\ calls[c].staged = <<"session_usage">>

(***************************************************************************)
(* C3  State unchanged on error.  Every step of a call that fails (at the  *)
(* session, daily or monthly write or at commit), from the failure with    *)
(* its rollback to the closing of its session, leaves the three tables as  *)
(* they were before the call began to write.                               *)
(***************************************************************************)
BeforeCall(c) == IF calls[c].in_tx THEN calls[c].base ELSE db

StateUnchangedOnError ==
    [][\A c \in Running :
          ( /\ StepOf(c)
            /\ \/ calls[c].result = "error"
               \/ c \in DOMAIN calls' /\ calls'[c].result = "error" )
          => db' = BeforeCall(c)]_vars

\* The monthly write of a call failed after its session and daily writes
\* were staged, and the call has rolled back; the store is not empty.
StateUnchangedOnErrorWitness ==
    /\ db.session_usage # << >>
    /\ \E c \in Running :
           /\ calls[c].result = "error"
           /\ calls[c].pc = "close"
           /\ calls[c].staged = <<"session_usage", "daily_usage">>

(***************************************************************************)
(* C4  Merge on the session key.  Whenever exactly two committed events    *)
(* share a session key (session_id, user_id, usage_date, model_id), there  *)
(* is exactly one session row for that key, and its token and cost fields  *)
(* are the element-wise sums of the two events.                            *)
(***************************************************************************)
SessionMerge ==
    \A i, j \in 1..Len(committed) :
        LET k == SessionKeyOfEvent(committed[i])
        IN  ( /\ i < j
              /\ SessionKeyOfEvent(committed[j]) = k
              /\ Len(EventsOfKey("session_usage", k)) = 2 )
            => /\ Cardinality(RowsOfKey(db, "session_usage", k)) = 1
               /\ \A r \in RowsOfKey(db, "session_usage", k) :
                      HoldsSums("session_usage", db.session_usage[r],
                                <<committed[i], committed[j]>>)

(***************************************************************************)
(* C5  Key uniqueness.  In every reachable state no table holds two rows   *)
(* with the same aggregation key, an absent user_id included.              *)
(***************************************************************************)
KeyUniqueness ==
    \A t \in Tables : \A i, j \in 1..Len(db[t]) :
        KeyOfRow(t, db[t][i]) = KeyOfRow(t, db[t][j]) => i = j

(***************************************************************************)
(* C6  Daily counting.  For every daily key (date, user_id, model_id) that *)
(* committed events carry there is a daily row, and every daily row has a  *)
(* request_count equal to the number of committed events with its key and  *)
(* a total_tokens equal to the sum of prompt_tokens + completion_tokens    *)
(* over those events.                                                      *)
(***************************************************************************)
DailyCounting ==
    /\ \A n \in 1..Len(committed) :
           RowsOfKey(db, "daily_usage", DailyKeyOfEvent(committed[n])) # {}
    /\ \A i \in 1..Len(db.daily_usage) :
           LET r == db.daily_usage[i]
               evs == EventsOfKey("daily_usage", DailyKeyOfRow(r))
           IN  /\ r.request_count = Len(evs)
               /\ r.total_tokens = SumTotalTokens(evs)

(***************************************************************************)
(* C7  Monthly grouping.  The committed events of one user_id and model_id *)
(* whose timestamps fall in the same calendar month are all merged into    *)
(* one monthly row, whose year_month is the "YYYY-MM" of that month, whose *)
(* request_count is their number and whose token and cost fields are their *)
(* sums; events of different months are in different rows.                 *)
(***************************************************************************)
MonthlyGrouping ==
    \A n \in 1..Len(committed) :
        LET k == MonthlyKeyOfEvent(committed[n])
            rows == RowsOfKey(db, "monthly_usage", k)
        IN  /\ Cardinality(rows) = 1
            /\ \A i \in rows :
                   HoldsSums("monthly_usage", db.monthly_usage[i],
                             EventsOfKey("monthly_usage", k))

(***************************************************************************)
(* C8  Insert when absent.  When a call commits and a table held no row    *)
(* for the key of its event, the table holds afterwards exactly one row    *)
(* for that key, whose token and cost fields are the event's values, with  *)
(* total_tokens = prompt_tokens + completion_tokens and, in the daily and  *)
(* monthly tables, request_count = 1.                                      *)
(***************************************************************************)
InsertWhenAbsent ==
    [][\A c \in Running : \A t \in Tables :
          LET e == EventOf(calls[c])
              k == KeyOfEvent(t, e)
          IN  (Commits(c) /\ RowsOfKey(db, t, k) = {})
              => /\ Cardinality(RowsOfKey(db', t, k)) = 1
                 /\ \A i \in RowsOfKey(db', t, k) :
                        /\ HoldsSums(t, db'[t][i], <<e>>)
                        /\ db'[t][i].total_tokens
                              = e.prompt_tokens + e.completion_tokens]_vars

\* Two calls have committed, the second with keys no row existed for.
InsertWhenAbsentWitness ==
    /\ Len(committed) = 2
    /\ \A t \in Tables :
           /\ Len(db[t]) = 2
           /\ KeyOfRow(t, db[t][1]) # KeyOfRow(t, db[t][2])
           /\ KeyOfRow(t, db[t][2]) = KeyOfEvent(t, committed[2])

(***************************************************************************)
(* C9  Independent keys.  A call that commits changes at most one row of   *)
(* each table, or adds one, and that row carries the key of its event:     *)
(* every row of another key keeps all its fields, and no row changes its   *)
(* key.  An event on another day with another model than every daily row   *)
(* adds a daily row and leaves the others as they were.                    *)
(***************************************************************************)
IndependentKeys ==
    [][\A c \in Running : \A t \in Tables :
          LET e == EventOf(calls[c])
              k == KeyOfEvent(t, e)
              old == db[t]
              new == db'[t]
          IN  Commits(c)
              => /\ Len(new) \in {Len(old), Len(old) + 1}
                 /\ \A i \in 1..Len(old) :
                        /\ KeyOfRow(t, new[i]) = KeyOfRow(t, old[i])
                        /\ KeyOfRow(t, old[i]) # k => new[i] = old[i]
                 /\ Cardinality({i \in 1..Len(old) : new[i] # old[i]})
                       + (Len(new) - Len(old)) <= 1
                 /\ Len(new) > Len(old) => KeyOfRow(t, new[Len(new)]) = k
                 /\ ( /\ t = "daily_usage"
                      /\ \A i \in 1..Len(old) :
                             /\ old[i].date # date(e.usage_datetime)
                             /\ old[i].model_id # e.model_id )
                    => /\ Len(new) = Len(old) + 1
                       /\ SubSeq(new, 1, Len(old)) = old]_vars

\* A second daily row, of another day and another model than the first, has
\* been added by the second commit.
IndependentKeysWitness ==
    /\ Len(committed) = 2
    /\ Len(db.daily_usage) = 2
    /\ db.daily_usage[1].date # db.daily_usage[2].date
    /\ db.daily_usage[1].model_id # db.daily_usage[2].model_id

(***************************************************************************)
(* C10  Cancellation rolls back.  Once a cancelled call has returned, the  *)
(* transaction it wrote in has been rolled back: its session holds no open *)
(* transaction with staged writes, whether the call opened the session     *)
(* itself or the caller supplied it.                                       *)
(***************************************************************************)
CancellationRollsBack ==
    \A c \in Running :
        (calls[c].result = "cancelled" /\ calls[c].pc = "end")
        => ~(calls[c].in_tx /\ calls[c].staged # << >>)

\* The half of C10 that concerns a session the call opened itself (not a
\* claim of its own): closing the session ends the transaction, releases the
\* write lock and leaves the committed tables as they were.
CancellationRollsBackOwnSession ==
    [][\A c \in Running :
          ( /\ calls[c].close_session
            /\ calls[c].result = "cancelled"
            /\ StepOf(c) )
          => /\ db' = db
             /\ committed' = committed
             /\ writer' # c
             /\ c \notin DOMAIN calls']_vars

(***************************************************************************)
(* C11  Failures surface, no internal retry.  A call returns normally only *)
(* in a step that leaves its event committed after it staged the three     *)
(* writes; a call that ends without a commit ends with an exception, never *)
(* with a normal return; and what a call has written is always a prefix of *)
(* session, daily, monthly: no write is attempted twice.                   *)
(***************************************************************************)
Writes == <<"session_usage", "daily_usage", "monthly_usage">>

IsPrefix(s, t) == Len(s) <= Len(t) /\ s = SubSeq(t, 1, Len(s))

ReturnsNormally(c) == StepOf(c) /\ returned' = returned + 1

FailuresSurface ==
    [][\A c \in Running :
          StepOf(c) =>
            /\ returned' \in {returned, returned + 1}
            /\ ReturnsNormally(c) =>
                  /\ calls[c].staged = Writes
                  /\ calls[c].result = "ok" \/ committed' = Append(committed, EventOf(calls[c]))
                  /\ db' = Aggregate(committed')
            /\ c \in DOMAIN calls' => IsPrefix(calls'[c].staged, Writes)
            /\ ( /\ calls[c].result = "pending"
                 /\ committed' = committed
                 /\ c \in DOMAIN calls'
                 /\ calls'[c].pc \in {"close", "end"} )
               => calls'[c].result \in {"error", "cancelled"}]_vars

\* One call has returned normally and another has failed and is about to
\* close its session.
FailuresSurfaceWitness ==
    /\ returned = 1
    /\ \E c \in Running :
           /\ calls[c].result = "error"
           /\ calls[c].pc = "close"

(***************************************************************************)
(* C12  Malformed filters are rejected.  A daily or user-session query     *)
(* called with a start date after its end date does not return a result:   *)
(* it ends with a validation error.                                        *)
(***************************************************************************)
RangeQueries ==
    {"get_daily_usage", "get_user_daily_usage", "get_all_users_daily_usage",
     "get_user_session_usage"}

\* The date range of the query just answered is malformed.
StartAfterEnd ==
    /\ reply.op \in RangeQueries
    /\ reply.args.start_date # NoDate
    /\ reply.args.end_date # NoDate
    /\ CmpDate(reply.args.start_date, reply.args.end_date) > 0

MalformedFiltersRejected ==
    StartAfterEnd => reply.status = "ValidationError"

(***************************************************************************)
(* C13  Daily query order.  The list that get_daily_usage,                 *)
(* get_user_daily_usage or get_all_users_daily_usage returns is sorted by  *)
(* date descending, then by user_id, model_id and provider ascending (an   *)
(* absent user_id first); in particular the row of a later date precedes   *)
(* the row of an earlier date of the same user.                            *)
(***************************************************************************)
DailyQueries ==
    {"get_daily_usage", "get_user_daily_usage", "get_all_users_daily_usage"}

DailyQueryOrder ==
    reply.op \in DailyQueries =>
        \A i, j \in DOMAIN reply.rows :
            LET a == reply.rows[i]
                b == reply.rows[j]
            IN  /\ i < j =>
                      \/ CmpDate(a.date, b.date) > 0
                      \/ /\ a.date = b.date
                         /\ CmpText(a.user_id, b.user_id) < 0
                      \/ /\ a.date = b.date
                         /\ a.user_id = b.user_id
                         /\ CmpText(a.model_id, b.model_id) < 0
                      \/ /\ a.date = b.date
                         /\ a.user_id = b.user_id
                         /\ a.model_id = b.model_id
                         /\ CmpText(a.provider, b.provider) <= 0
                /\ (a.user_id = b.user_id /\ CmpDate(a.date, b.date) > 0) => i < j

\* get_user_daily_usage has returned the rows of two days of one user.
DailyQueryOrderWitness ==
    /\ reply.op = "get_user_daily_usage"
    /\ reply.args.user_id = "user-1"
    /\ Len(reply.rows) = 2
    /\ reply.rows[1].date = [year |-> 2024, month |-> 5, day |-> 2]
    /\ reply.rows[2].date = [year |-> 2024, month |-> 5, day |-> 1]
    /\ reply.rows[1].user_id = "user-1" /\ reply.rows[2].user_id = "user-1"

(***************************************************************************)
(* C14  Deterministic daily order.  No two rows of the list a daily query  *)
(* returns tie on (date, user_id, model_id, provider), and the list is the *)
(* only one the query can return from the stored rows.                     *)
(***************************************************************************)
DailySortKey(r) == <<r.date, r.user_id, r.model_id, r.provider>>

DeterministicDailyOrder ==
    reply.op \in DailyQueries =>
        /\ \A i, j \in DOMAIN reply.rows :
               i # j => DailySortKey(reply.rows[i]) # DailySortKey(reply.rows[j])
        /\ \A ids \in GetAllUsersDailyUsage(db, reply.args.start_date,
                                            reply.args.end_date, reply.args.provider,
                                            reply.args.model_id, reply.args.user_id) :
               ids = reply.ids

(***************************************************************************)
(* C15  Filter semantics.  The list a daily, monthly or user-session query *)
(* returns holds, once each, exactly the stored rows that satisfy every    *)
(* filter the caller supplied: the date range with both ends included,     *)
(* provider, model_id, user_id and year_month.  A filter left out (None)   *)
(* restricts nothing; the query returns a list, empty when no row matches, *)
(* and raises no error.                                                    *)
(***************************************************************************)
FilterQueries == DailyQueries \cup {"get_monthly_usage", "get_user_session_usage"}

\* The table a query reads.
TableOf(op) ==
    CASE op \in DailyQueries \cup {"get_full_user_usage"} -> "daily_usage"
      [] op = "get_monthly_usage" -> "monthly_usage"
      [] op \in {"get_session_usage", "get_user_session_usage"} -> "session_usage"

\* Row r of the table of query op satisfies every supplied filter of args.
Satisfies(op, r, args) ==
    /\ args.provider # None => r.provider = args.provider
    /\ args.model_id # None => r.model_id = args.model_id
    /\ args.user_id # None => r.user_id = args.user_id
    /\ op = "get_monthly_usage" =>
          (args.year_month # NoYearMonth => r.year_month = args.year_month)
    /\ op # "get_monthly_usage" =>
          LET d == IF op = "get_user_session_usage" THEN r.usage_date ELSE r.date
          IN  /\ args.start_date # NoDate => CmpDate(d, args.start_date) >= 0
              /\ args.end_date # NoDate => CmpDate(d, args.end_date) <= 0

FilterSemantics ==
    reply.op \in FilterQueries =>
        LET table == db[TableOf(reply.op)]
        IN  /\ reply.status = "ok"
            /\ {reply.ids[n] : n \in DOMAIN reply.ids}
                 = {i \in DOMAIN table : Satisfies(reply.op, table[i], reply.args)}
            /\ \A m, n \in DOMAIN reply.ids : reply.ids[m] = reply.ids[n] => m = n
            /\ reply.rows = RowsOf(table, reply.ids)

(***************************************************************************)
(* C16  get_session_usage(session_id) returns, once each, exactly the      *)
(* session rows whose session_id is the argument, whatever their user,     *)
(* date and model, with created_at ascending: the oldest first.            *)
(***************************************************************************)
\* The row ids of the list just returned.
ReplyIds == {reply.ids[n] : n \in DOMAIN reply.ids}

\* The list just returned holds no row twice and holds the rows as stored.
ReplyIsList ==
    /\ \A m, n \in DOMAIN reply.ids : reply.ids[m] = reply.ids[n] => m = n
    /\ reply.rows = RowsOf(db[TableOf(reply.op)], reply.ids)

SessionQueryResult ==
    reply.op = "get_session_usage" =>
        /\ ReplyIds = {i \in DOMAIN db.session_usage :
                          db.session_usage[i].session_id = reply.args.session_id}
        /\ ReplyIsList
        /\ \A i, j \in DOMAIN reply.rows :
               i < j => CmpDateTime(reply.rows[i].created_at,
                                    reply.rows[j].created_at) <= 0

\* The rows of a session are returned oldest first, against the order in
\* which they were stored.
SessionQueryResultWitness ==
    /\ reply.op = "get_session_usage"
    /\ reply.ids = <<2, 1>>
    /\ reply.rows[1].usage_date # reply.rows[2].usage_date

(***************************************************************************)
(* C17  get_user_session_usage returns only session rows whose user_id is  *)
(* the user argument (the empty string included), sorted by usage_date     *)
(* descending, then by session_id, model_id and provider ascending.        *)
(***************************************************************************)
UserSessionQueryResult ==
    reply.op = "get_user_session_usage" =>
        /\ ReplyIsList
        /\ \A n \in DOMAIN reply.rows : reply.rows[n].user_id = reply.args.user_id
        /\ \A i, j \in DOMAIN reply.rows :
               LET a == reply.rows[i]
                   b == reply.rows[j]
               IN  i < j =>
                      \/ CmpDate(a.usage_date, b.usage_date) > 0
                      \/ /\ a.usage_date = b.usage_date
                         /\ CmpText(a.session_id, b.session_id) < 0
                      \/ /\ a.usage_date = b.usage_date
                         /\ a.session_id = b.session_id
                         /\ CmpText(a.model_id, b.model_id) < 0
                      \/ /\ a.usage_date = b.usage_date
                         /\ a.session_id = b.session_id
                         /\ a.model_id = b.model_id
                         /\ CmpText(a.provider, b.provider) <= 0

\* The later day of a user is returned first although its session sorts
\* after the session of the earlier day.
UserSessionQueryResultWitness ==
    /\ reply.op = "get_user_session_usage"
    /\ reply.args.user_id = "user-1"
    /\ Len(reply.rows) = 2
    /\ CmpDate(reply.rows[1].usage_date, reply.rows[2].usage_date) > 0
    /\ CmpText(reply.rows[1].session_id, reply.rows[2].session_id) > 0

DailyRowsOf(user_id) == SelectSeq(db.daily_usage, LAMBDA r : r.user_id = user_id)

FullUsageTotals ==
    (reply.op = "get_full_user_usage" /\ reply.status = "ok") =>
        LET rows == DailyRowsOf(reply.args.user_id)
        IN  /\ reply.totals.prompt_tokens = Sum(rows, "prompt_tokens")
            /\ reply.totals.completion_tokens = Sum(rows, "completion_tokens")
            /\ reply.totals.total_tokens = Sum(rows, "total_tokens")
            /\ reply.total_cost = Sum(rows, "total_cost")
            /\ (Len(rows) = 1 /\ Len(reply.sessions) = 2) =>
                   /\ reply.totals.total_tokens = rows[1].total_tokens
                   /\ reply.totals.total_tokens
                        # rows[1].total_tokens + Sum(reply.sessions, "total_tokens")

\* Two sessions of one user share a day and a model: two session rows, one
\* daily row.
FullUsageTotalsWitness ==
    /\ reply.op = "get_full_user_usage"
    /\ reply.status = "ok"
    /\ Len(reply.sessions) = 2
    /\ reply.sessions[1].session_id # reply.sessions[2].session_id
    /\ Len(reply.rows) = 1
    /\ reply.totals.total_tokens = reply.rows[1].total_tokens

(***************************************************************************)
(* C20  Last-write-wins fields.  For every key that committed events       *)
(* carry, in each table, the row of that key has the provider of the event *)
(* committed last for the key and, in the session table, its currency,     *)
(* while its numeric fields are the sums over all committed events of the  *)
(* key.                                                                    *)
(***************************************************************************)
LastWriteWins ==
    \A t \in Tables :
        \A n \in 1..Len(committed) :
            LET k == KeyOfEvent(t, committed[n])
                evs == EventsOfKey(t, k)
                last == evs[Len(evs)]
            IN  \E i \in RowsOfKey(db, t, k) :
                    /\ db[t][i].provider = last.provider
                    /\ t = "session_usage" => db[t][i].currency = last.currency
                    /\ HoldsSums(t, db[t][i], evs)

\* The same for the keys that carry a user_id (not a claim of its own).
LastWriteWinsWithUser ==
    \A t \in Tables :
        \A n \in 1..Len(committed) :
            LET k == KeyOfEvent(t, committed[n])
                evs == EventsOfKey(t, k)
                last == evs[Len(evs)]
            IN  committed[n].user_id # None =>
                    \E i \in RowsOfKey(db, t, k) :
                        /\ db[t][i].provider = last.provider
                        /\ t = "session_usage" => db[t][i].currency = last.currency
                        /\ HoldsSums(t, db[t][i], evs)

\* A row whose key two events with different providers and currencies were
\* merged into (not a claim of its own).
LastWriteWinsCase ==
    /\ Len(committed) = 2
    /\ committed[1].user_id # None
    /\ SessionKeyOfEvent(committed[1]) = SessionKeyOfEvent(committed[2])
    /\ committed[1].provider # committed[2].provider
    /\ committed[1].currency # committed[2].currency

(***************************************************************************)
(* C21  No deduplication.  Where one and the same event was committed      *)
(* twice, each table still holds one row for its key, and that row counts  *)
(* the event twice: its token and cost fields are the sums over all the    *)
(* committed events of the key, both copies among them, and its            *)
(* request_count is their number; where the key carries nothing but copies *)
(* of the event, every field is the event's value times their number.      *)
(***************************************************************************)
NoDeduplication ==
    \A m, n \in 1..Len(committed) :
        (m < n /\ committed[m] = committed[n]) =>
            \A t \in Tables :
                LET e == committed[n]
                    k == KeyOfEvent(t, e)
                    evs == EventsOfKey(t, k)
                    rows == RowsOfKey(db, t, k)
                IN  /\ Cardinality(rows) = 1
                    /\ \A i \in rows :
                           /\ HoldsSums(t, db[t][i], evs)
                           /\ (\A j \in DOMAIN evs : evs[j] = e) =>
                                  /\ db[t][i].prompt_tokens = Len(evs) * e.prompt_tokens
                                  /\ db[t][i].completion_tokens
                                       = Len(evs) * e.completion_tokens
                                  /\ db[t][i].total_tokens = Len(evs) * TotalTokens(e)
                                  /\ db[t][i].total_cost = Len(evs) * e.total_cost
                                  /\ t # "session_usage" =>
                                         db[t][i].request_count = Len(evs)

\* The same for the events that carry a user_id (not a claim of its own).
NoDeduplicationWithUser ==
    \A m, n \in 1..Len(committed) :
        (m < n /\ committed[m] = committed[n] /\ committed[n].user_id # None) =>
            \A t \in Tables :
                LET e == committed[n]
                    k == KeyOfEvent(t, e)
                    evs == EventsOfKey(t, k)
                    rows == RowsOfKey(db, t, k)
                IN  /\ Cardinality(rows) = 1
                    /\ \A i \in rows :
                           /\ HoldsSums(t, db[t][i], evs)
                           /\ (\A j \in DOMAIN evs : evs[j] = e) =>
                                  /\ db[t][i].prompt_tokens = Len(evs) * e.prompt_tokens
                                  /\ db[t][i].total_cost = Len(evs) * e.total_cost
                                  /\ t # "session_usage" =>
                                         db[t][i].request_count = Len(evs)

\* An event with a user_id has been committed twice (not a claim of its own).
NoDeduplicationCase ==
    /\ Len(committed) = 2
    /\ committed[1] = committed[2]
    /\ committed[1].user_id # None

(***************************************************************************)
(* C22  Rows are never destroyed.  Across the steps of the calls of        *)
(* track_usage, failing and cancelled ones included, and of the queries,   *)
(* every row of every table stays where it is with the key it has, and no  *)
(* table ever has fewer rows than before.                                  *)
(***************************************************************************)
RowsNeverDestroyed ==
    [][\A t \in Tables :
          /\ Len(db'[t]) >= Len(db[t])
          /\ \A i \in DOMAIN db[t] :
                 /\ i \in DOMAIN db'[t]
                 /\ KeyOfRow(t, db'[t][i]) = KeyOfRow(t, db[t][i])]_vars

\* One call has committed, another has ended without a commit, and a query
\* has returned the daily row.
RowsNeverDestroyedWitness ==
    /\ Len(committed) = 1
    /\ ncalls = 2
    /\ returned = 1
    /\ calls = << >>
    /\ reply.op = "get_daily_usage"
    /\ Len(reply.rows) = 1

(***************************************************************************)
(* C23  Monotonic accumulation.  Over any sequence of calls, no step makes *)
(* a token field or a cost field of a row of any table smaller than it     *)
(* was.                                                                    *)
(***************************************************************************)
\* The token and cost fields of the rows of table t.
NumericFields(t) ==
    IF t = "session_usage"
    THEN {"prompt_tokens", "completion_tokens", "total_tokens",
          "input_cost", "output_cost", "total_cost"}
    ELSE {"prompt_tokens", "completion_tokens", "total_tokens", "total_cost"}

QueryFunctions ==
    {"get_session_usage", "get_daily_usage", "get_user_daily_usage",
     "get_all_users_daily_usage", "get_user_session_usage", "get_monthly_usage"}

ReadOnlyQueries ==
    [][/\ reply'.op \in QueryFunctions \cup {"get_full_user_usage"} =>
             /\ db' = db
             /\ writer' = writer
             /\ calls' = calls
             /\ committed' = committed
       /\ db' # db =>
             /\ reply' = NoReply
             /\ \E c \in Running : Commits(c)]_vars

\* A query has returned rows of a store that holds two events.
ReadOnlyQueriesWitness ==
    /\ reply.op \in QueryFunctions
    /\ Len(reply.rows) >= 1
    /\ Len(committed) = 2
    /\ db = Aggregate(committed)

(***************************************************************************)
(* C25  No dirty reads.  Every row a query returns, at whatever moment it  *)
(* runs, is a row of the tables as the committed events alone make them;   *)
(* while a call has staged writes in a transaction that has not committed, *)
(* no query returns a row that only that transaction holds.                *)
(***************************************************************************)
\* The rows of a list are rows of a table.
RowsIn(rows, table) ==
    \A n \in DOMAIN rows : \E i \in DOMAIN table : table[i] = rows[n]

NoDirtyReads ==
    reply.op = "get_session_usage" =>
        /\ RowsIn(reply.rows, Aggregate(committed).session_usage)
        /\ \A c \in Running : \A n \in DOMAIN reply.rows :
               calls[c].in_tx =>
                   \/ RowsIn(<<reply.rows[n]>>, db.session_usage)
                   \/ ~RowsIn(<<reply.rows[n]>>, calls[c].view.session_usage)

\* A query has returned the committed row of a session while a running call
\* has staged a merge into that row.
NoDirtyReadsWitness ==
    /\ reply.op = "get_session_usage"
    /\ Len(reply.rows) = 1
    /\ \E c \in Running :
           /\ calls[c].in_tx
           /\ calls[c].staged # << >>
           /\ Len(calls[c].view.session_usage) = 1
           /\ calls[c].view.session_usage[1].session_id = reply.args.session_id
           /\ calls[c].view.session_usage[1] # reply.rows[1]

(***************************************************************************)
(* C26  Round trip.  After a single successful call on an empty store,     *)
(* every query whose arguments are the event's own values returns exactly  *)
(* one row, and that row carries the event's session_id (session view),    *)
(* user_id, day or "YYYY-MM" month, provider, model_id, token counts,      *)
(* costs and currency (session view), with request_count 1 in the daily    *)
(* and monthly views.                                                      *)
(***************************************************************************)
\* Every argument supplied to the query is the value the event e carries.
Corresponds(args, e) ==
    /\ args.session_id # None => args.session_id = e.session_id
    /\ args.user_id # None => args.user_id = e.user_id
    /\ args.provider # None => args.provider = e.provider
    /\ args.model_id # None => args.model_id = e.model_id
    /\ args.start_date # NoDate => args.start_date = date(e.usage_datetime)
    /\ args.end_date # NoDate => args.end_date = date(e.usage_datetime)
    /\ args.year_month # NoYearMonth =>
           args.year_month = FormatYearMonth(date(e.usage_datetime))

\* Row r of the table of query op carries the values of event e.
CarriesEvent(op, r, e) ==
    /\ r.user_id = e.user_id
    /\ r.provider = e.provider
    /\ r.model_id = e.model_id
    /\ r.prompt_tokens = e.prompt_tokens
    /\ r.completion_tokens = e.completion_tokens
    /\ r.total_tokens = e.prompt_tokens + e.completion_tokens
    /\ r.total_cost = e.total_cost
    /\ TableOf(op) = "session_usage" =>
           /\ r.session_id = e.session_id
           /\ r.usage_date = date(e.usage_datetime)
           /\ r.input_cost = e.input_cost
           /\ r.output_cost = e.output_cost
           /\ r.currency = e.currency
    /\ TableOf(op) = "daily_usage" =>
           /\ r.date = date(e.usage_datetime)
           /\ r.request_count = 1
    /\ TableOf(op) = "monthly_usage" =>
           /\ r.year_month = FormatYearMonth(date(e.usage_datetime))
           /\ ParseYearMonth(r.year_month) = MonthOf(e.usage_datetime)
           /\ r.request_count = 1

RoundTrip ==
    /\ (Len(committed) = 1 /\ reply.op \in QueryFunctions
          /\ Corresponds(reply.args, committed[1])) =>
           /\ reply.status = "ok"
           /\ Len(reply.rows) = 1
           /\ CarriesEvent(reply.op, reply.rows[1], committed[1])
    /\ (Len(committed) = 1 /\ reply.op = "get_full_user_usage"
          /\ Corresponds(reply.args, committed[1])) =>
           /\ reply.status = "ok"
           /\ Len(reply.rows) = 1 /\ Len(reply.monthly) = 1 /\ Len(reply.sessions) = 1
           /\ CarriesEvent("get_user_daily_usage", reply.rows[1], committed[1])
           /\ CarriesEvent("get_monthly_usage", reply.monthly[1], committed[1])
           /\ CarriesEvent("get_user_session_usage", reply.sessions[1], committed[1])

\* The monthly view has returned the one row of the one event recorded, asked
\* for by the event's month, user, provider and model.
RoundTripWitness ==
    /\ Len(committed) = 1
    /\ reply.op = "get_monthly_usage"
    /\ reply.args.year_month # NoYearMonth
    /\ reply.args.user_id # None
    /\ reply.args.provider # None
    /\ reply.args.model_id # None
    /\ Corresponds(reply.args, committed[1])
    /\ Len(reply.rows) = 1
    /\ reply.rows[1].total_cost > 0

(***************************************************************************)
(* C27  Recorded before acknowledged.  The chat-completion handler answers *)
(* 200 only in the step in which its own track_usage call returns after    *)
(* having committed: the event it reports is in the committed history and  *)
(* in the tables.  When the call has raised (or was cancelled) the step in *)
(* which it ends answers no 200.                                           *)
(***************************************************************************)
\* The step ends call c of the handler.
Ends(c) == c \in Running /\ calls[c].pc = "close" /\ c \notin DOMAIN calls'

RecordedBeforeAcknowledged ==
    [][/\ (reply'.op = "create_chat_completion" /\ reply'.status = "200") =>
             \E c \in Running :
                 /\ reply'.ids = <<c>>
                 /\ Ends(c)
                 /\ calls[c].result = "ok"
                 /\ reply'.rows = <<EventOf(calls[c])>>
                 /\ \E k \in DOMAIN committed : committed[k] = EventOf(calls[c])
                 /\ db' = db
                 /\ \E i \in DOMAIN db.session_usage :
                        /\ db.session_usage[i].session_id = calls[c].session_id
                        /\ db.session_usage[i].prompt_tokens >= calls[c].prompt_tokens
       /\ \A c \in Running :
              (Ends(c) /\ calls[c].result # "ok") =>
                  ~(reply'.op = "create_chat_completion" /\ reply'.status = "200")
      ]_vars

\* The handler has answered 200 for a call whose event is the second one
\* committed, once both calls have returned.
RecordedBeforeAcknowledgedWitness ==
    /\ reply.op = "create_chat_completion"
    /\ reply.status = "200"
    /\ Len(committed) = 2
    /\ reply.rows[1] = committed[2]
    /\ returned = 2

\* The handler has answered 500 for a call that raised: nothing of it is
\* recorded.
TrackUsageRaisedWitness ==
    /\ reply.op = "create_chat_completion"
    /\ reply.status = "500"
    /\ reply.ids # <<0>>
    /\ committed = << >>
    /\ db = EmptyDb

(***************************************************************************)
(* C28  Daily and monthly views agree.  In every committed state, for      *)
(* every calendar month, user_id and model_id, the daily rows of that user *)
(* and model whose date lies in the month and the monthly rows of that key *)
(* have the same sums of request_count, prompt_tokens, completion_tokens   *)
(* and total_tokens.                                                       *)
(***************************************************************************)
\* The month, user and model a daily row counts for.
MonthKeyOfDailyRow(r) == <<MonthOf(r.date), r.user_id, r.model_id>>

DailyRowsOfMonth(d, k) ==
    SelectSeq(d.daily_usage, LAMBDA r : MonthKeyOfDailyRow(r) = k)

MonthlyRowsOfMonth(d, k) ==
    SelectSeq(d.monthly_usage, LAMBDA r : MonthlyKeyOfRow(r) = k)

MonthKeys(d) ==
    {MonthKeyOfDailyRow(d.daily_usage[i]) : i \in DOMAIN d.daily_usage}
    \cup {MonthlyKeyOfRow(d.monthly_usage[i]) : i \in DOMAIN d.monthly_usage}

DailyMonthlyAgree ==
    \A k \in MonthKeys(db) :
        \A field \in {"request_count", "prompt_tokens", "completion_tokens",
                      "total_tokens"} :
            Sum(DailyRowsOfMonth(db, k), field) = Sum(MonthlyRowsOfMonth(db, k), field)

\* Two days of one month of one user and model are committed: two daily
\* rows stand against one monthly row that counts two requests.
DailyMonthlyAgreeWitness ==
    \E k \in MonthKeys(db) :
        /\ Len(DailyRowsOfMonth(db, k)) = 2
        /\ Len(MonthlyRowsOfMonth(db, k)) = 1
        /\ MonthlyRowsOfMonth(db, k)[1].request_count = 2

(***************************************************************************)
(* C29  Session and daily views agree.  In every committed state, for      *)
(* every day, user_id and model_id, the session rows with that usage_date, *)
(* user and model, of whatever session, and the daily rows of that key     *)
(* have the same sums of prompt_tokens, completion_tokens, total_tokens    *)
(* and total_cost.                                                         *)
(***************************************************************************)
\* The day, user and model a session row counts for.
DayKeyOfSessionRow(r) == <<r.usage_date, r.user_id, r.model_id>>

SessionRowsOfDay(d, k) ==
    SelectSeq(d.session_usage, LAMBDA r : DayKeyOfSessionRow(r) = k)

DailyRowsOfDay(d, k) ==
    SelectSeq(d.daily_usage, LAMBDA r : DailyKeyOfRow(r) = k)

DayKeys(d) ==
    {DayKeyOfSessionRow(d.session_usage[i]) : i \in DOMAIN d.session_usage}
    \cup {DailyKeyOfRow(d.daily_usage[i]) : i \in DOMAIN d.daily_usage}

RowInvariant(t, r) ==
    /\ r.total_tokens = r.prompt_tokens + r.completion_tokens
    /\ t # "session_usage" => r.request_count >= 1

RowInvariants ==
    /\ \A t \in Tables : \A i \in DOMAIN db[t] : RowInvariant(t, db[t][i])
    /\ \A c \in Running : \A t \in Tables : \A i \in DOMAIN calls[c].view[t] :
           calls[c].in_tx => RowInvariant(t, calls[c].view[t][i])

\* Two events have merged into the rows of one key, which hold the sums.
RowInvariantsWitness ==
    /\ Len(committed) = 2
    /\ Len(db.session_usage) = 1
    /\ db.session_usage[1].total_tokens
         = TotalTokens(committed[1]) + TotalTokens(committed[2])
    /\ db.session_usage[1].prompt_tokens > committed[1].prompt_tokens
    /\ db.daily_usage[1].request_count = 2
    /\ db.monthly_usage[1].request_count = 2

(***************************************************************************)
(* C31  User isolation in get_user_daily_usage.  Whatever the user_id      *)
(* argument, the empty string included, every daily row returned carries   *)
(* that user_id: no row of another user is returned.                       *)
(***************************************************************************)
UserIsolation ==
    reply.op = "get_user_daily_usage" =>
        \A n \in DOMAIN reply.rows : reply.rows[n].user_id = reply.args.user_id

\* The half of C31 that concerns a user_id that is not the empty string (not
\* a claim of its own).
UserIsolationNamedUser ==
    (reply.op = "get_user_daily_usage" /\ reply.args.user_id # "") =>
        \A n \in DOMAIN reply.rows : reply.rows[n].user_id = reply.args.user_id

\* get_user_daily_usage has answered for a named user while rows of that
\* user and rows without user are stored (not a claim of its own).
UserIsolationCase ==
    /\ reply.op = "get_user_daily_usage"
    /\ reply.args.user_id = "user-1"
    /\ Len(reply.rows) = 1
    /\ Len(db.daily_usage) = 2

(***************************************************************************)
(* C32  Snapshot consistency of the composite view.  The daily, monthly    *)
(* and sessions lists of one answer of get_full_user_usage describe the    *)
(* same committed events, also when calls of that user commit while the    *)
(* route runs: the sums of total_tokens over the three lists are equal.    *)
(***************************************************************************)
SnapshotConsistency ==
    (reply.op = "get_full_user_usage" /\ reply.status = "ok") =>
        /\ Sum(reply.rows, "total_tokens") = Sum(reply.monthly, "total_tokens")
        /\ Sum(reply.rows, "total_tokens") = Sum(reply.sessions, "total_tokens")

\* The half of C32 in which no call commits between the first and the last
\* query of the route (not a claim of its own).
SnapshotConsistencyQuiet ==
    (reply.op = "get_full_user_usage" /\ reply.status = "ok"
       /\ reply.seen[1] = reply.seen[3]) =>
        /\ Sum(reply.rows, "total_tokens") = Sum(reply.monthly, "total_tokens")
        /\ Sum(reply.rows, "total_tokens") = Sum(reply.sessions, "total_tokens")

\* Each list of the answer is what the events committed when it was read
\* make of its table (not a claim of its own).
SnapshotPerQuery ==
    (reply.op = "get_full_user_usage" /\ reply.status = "ok") =>
        /\ RowsIn(reply.rows,
                  Aggregate(SubSeq(committed, 1, reply.seen[1])).daily_usage)
        /\ RowsIn(reply.monthly,
                  Aggregate(SubSeq(committed, 1, reply.seen[2])).monthly_usage)
        /\ RowsIn(reply.sessions,
                  Aggregate(SubSeq(committed, 1, reply.seen[3])).session_usage)

\* The route has answered without a commit between its queries, with rows
\* in every list (not a claim of its own).
SnapshotConsistencyCase ==
    /\ reply.op = "get_full_user_usage"
    /\ reply.status = "ok"
    /\ reply.seen = <<1, 1, 1>>
    /\ Len(reply.rows) = 1 /\ Len(reply.monthly) = 1 /\ Len(reply.sessions) = 1

(***************************************************************************)
(* C33  Commit order does not matter for sums.  Had the committed events   *)
(* committed in any other order, the three tables would hold rows of the   *)
(* same keys with the same token counts, costs and request_count; only     *)
(* provider, currency and created_at depend on the order.                  *)
(***************************************************************************)
\* The committed events in the order p, a permutation of their positions.
Reorder(p) == [i \in DOMAIN committed |-> committed[p[i]]]

\* The rows of a table with the columns that may depend on the commit order
\* blanked: the key, token, cost and count columns remain.
WithoutLastWrite(t, table) ==
    [i \in DOMAIN table |->
        IF t = "session_usage"
        THEN [table[i] EXCEPT !.provider = "", !.currency = "",
                              !.created_at = DateTime(0, 0, 0, 0)]
        ELSE [table[i] EXCEPT !.provider = ""]]

\* The same with the cost columns blanked as well.
WithoutCosts(t, table) ==
    [i \in DOMAIN table |->
        IF t = "session_usage"
        THEN [WithoutLastWrite(t, table)[i] EXCEPT !.input_cost = 0, !.output_cost = 0,
                                                   !.total_cost = 0]
        ELSE [WithoutLastWrite(t, table)[i] EXCEPT !.total_cost = 0]]

\* Two lists hold the same rows the same number of times.
SameRows(a, b) ==
    /\ Len(a) = Len(b)
    /\ \A i \in DOMAIN a :
           Cardinality({j \in DOMAIN a : a[j] = a[i]})
             = Cardinality({j \in DOMAIN b : b[j] = a[i]})

CommitOrderIrrelevant ==
    \A p \in Perms(DOMAIN committed) :
        \A t \in Tables :
            SameRows(WithoutLastWrite(t, db[t]),
                     WithoutLastWrite(t, Aggregate(Reorder(p))[t]))

\* The order evs keeps the events of each key of table t in the order in
\* which they committed.
KeepsKeyOrder(t, evs) ==
    \A n \in DOMAIN committed :
        SelectSeq(evs, LAMBDA e : KeyOfEvent(t, e) = KeyOfEvent(t, committed[n]))
          = EventsOfKey(t, KeyOfEvent(t, committed[n]))

\* C33 as amended: for every other commit order the keys, token counts and
\* request_count are the same; the cost columns, sums of floating point
\* numbers rounded at each merge, are the same for every order that keeps
\* the events of each key in their order.
CommitOrderSums ==
    \A p \in Perms(DOMAIN committed) :
        \A t \in Tables :
            /\ SameRows(WithoutCosts(t, db[t]),
                        WithoutCosts(t, Aggregate(Reorder(p))[t]))
            /\ KeepsKeyOrder(t, Reorder(p)) =>
                   SameRows(WithoutLastWrite(t, db[t]),
                            WithoutLastWrite(t, Aggregate(Reorder(p))[t]))

\* Three events are committed, two of one key with different tokens merged
\* into one row and one of another key in between.
CommitOrderSumsWitness ==
    /\ Len(committed) = 3
    /\ Len(db.daily_usage) = 2
    /\ KeyOfEvent("daily_usage", committed[1]) = KeyOfEvent("daily_usage", committed[3])
    /\ KeyOfEvent("daily_usage", committed[1]) # KeyOfEvent("daily_usage", committed[2])
    /\ committed[1].prompt_tokens # committed[3].prompt_tokens
    /\ db.daily_usage[1].request_count = 2

\* Three events of one key are committed and another order of the same
\* events leaves another total_cost (not a claim of its own).
CommitOrderCostCase ==
    /\ Len(committed) = 3
    /\ Len(db.daily_usage) = 1
    /\ \E p \in Perms(DOMAIN committed) :
           Aggregate(Reorder(p)).daily_usage[1].total_cost # db.daily_usage[1].total_cost

(***************************************************************************)
(* C34  No deadlock.  Under any interleaving of concurrent calls, a write  *)
(* that conflicts waits for the holder of the write lock; the holder       *)
(* itself never waits, so no calls wait on each other, and every call that *)
(* has begun eventually commits or fails (or ends cancelled by its         *)
(* caller): none stays suspended forever.                                  *)
(***************************************************************************)
\* Call c has begun and has not reached the end of track_usage.
Pending(c) == c \in Running /\ calls[c].pc # "end"

\* No call waits while it holds the lock, and a call waits only for a lock
\* that some connection holds.
HolderNeverWaits ==
    \A c \in Running : Waiting(c) => (writer # 0 /\ writer # c /\ ~Waiting(writer))

NoDeadlock ==
    /\ []HolderNeverWaits
    /\ \A c \in 1..MaxCalls : Pending(c) ~> ~Pending(c)

\* A call waits for the lock at its first write while the holder has staged
\* its session and daily rows and is about to write the monthly row.
NoDeadlockWitness ==
    \E c \in Running, h \in Running :
        /\ Waiting(c)
        /\ calls[c].pc = "session"
        /\ writer = h
        /\ calls[h].pc = "monthly"
        /\ calls[h].staged = <<"session_usage", "daily_usage">>

(***************************************************************************)
(* C35  Merging keeps identity fields.  When an event merges into an       *)
(* existing session row, the row's session_id, user_id, usage_date,        *)
(* model_id and created_at are unchanged: created_at stays the timestamp   *)
(* of the first event of the key, and get_session_usage returns the rows   *)
(* in the order of the first events of their keys.                         *)
(***************************************************************************)
IdentityFields(r) ==
    <<r.session_id, r.user_id, r.usage_date, r.model_id, r.created_at>>

\* The timestamp of the first committed event of the key of session row r.
FirstEventTime(r) ==
    EventsOfKey("session_usage", SessionKeyOfRow(r))[1].usage_datetime

MergeKeepsIdentity ==
    /\ [][\A i \in DOMAIN db.session_usage :
              /\ i \in DOMAIN db'.session_usage
              /\ IdentityFields(db'.session_usage[i])
                     = IdentityFields(db.session_usage[i])]_vars
    /\ [](\A i \in DOMAIN db.session_usage :
              db.session_usage[i].user_id # None =>
                  db.session_usage[i].created_at
                      = FirstEventTime(db.session_usage[i]))
    /\ [](reply.op = "get_session_usage" =>
              \A i, j \in DOMAIN reply.rows :
                  i < j => CmpDateTime(FirstEventTime(reply.rows[i]),
                                       FirstEventTime(reply.rows[j])) <= 0)

\* The later event of a key has merged into the row of the earlier one, and
\* the session query has returned that row.
MergeKeepsIdentityWitness ==
    /\ Len(committed) = 2
    /\ SessionKeyOfEvent(committed[1]) = SessionKeyOfEvent(committed[2])
    /\ committed[1].usage_datetime # committed[2].usage_datetime
    /\ reply.op = "get_session_usage"
    /\ Len(reply.rows) = 1
    /\ reply.rows[1].total_tokens = TotalTokens(committed[1]) + TotalTokens(committed[2])
    /\ reply.rows[1].created_at = committed[1].usage_datetime

(***************************************************************************)
(* C36  Session ownership.  A session that track_usage opened itself is    *)
(* closed on every exit path: commit, failure with rollback, cancellation. *)
(* A session supplied by the caller is never closed by track_usage; it is  *)
(* committed on success and rolled back on failure, with the work the      *)
(* caller had pending in it.                                               *)
(***************************************************************************)
InTry == {"session", "daily", "monthly", "commit"}

\* Call c leaves the try statement in this step.
LeavesTry(c) ==
    /\ calls[c].pc \in InTry
    /\ StepOf(c)
    /\ c \in DOMAIN calls' => calls'[c].pc \notin InTry

\* The tokens of the caller's write in the tables d.
CallerTokens(d) ==
    LET rows == RowsOfKey(d, "session_usage", SessionKeyOfEvent(CallerWork))
    IN  IF rows = {} THEN 0
        ELSE d.session_usage[CHOOSE i \in rows : TRUE].total_tokens

SessionOwnership ==
    [][\A c \in Running :
          /\ calls[c].close_session =>
                /\ LeavesTry(c) => c \in DOMAIN calls' /\ calls'[c].pc = "close"
                /\ c \notin DOMAIN calls' => calls[c].pc = "close" /\ writer' # c
          /\ ~calls[c].close_session =>
                /\ calls[c].pc # "close"
                /\ c \in DOMAIN calls' => calls'[c].pc # "close"
                /\ Commits(c) =>
                      /\ db' = ViewOf(c)
                      /\ CallerTokens(db') = CallerTokens(ViewOf(c))
                      /\ c \notin DOMAIN calls'
                      /\ writer' # c
                /\ (calls[c].in_tx /\ LeavesTry(c) /\ ~Commits(c)
                       /\ c \notin DOMAIN calls') =>
                      /\ db' = db
                      /\ CallerTokens(db') = CallerTokens(db)
                      /\ writer' # c]_vars

\* A call on the session of its caller has committed, and with its three
\* rows the write the caller had pending in that session.
SessionOwnershipWitness ==
    /\ Len(committed) = 1
    /\ returned = 1
    /\ calls = << >>
    /\ writer = 0
    /\ CallerTokens(db) = TotalTokens(CallerWork)
    /\ Len(db.session_usage) = 2

(***************************************************************************)
(* C37  Deterministic monthly order.  No two distinct rows of the list     *)
(* get_monthly_usage returns tie on (year_month, provider, model_id), and  *)
(* the list is the only one the query can return from the stored rows.     *)
(***************************************************************************)
MonthlySortKey(r) == <<r.year_month, r.provider, r.model_id>>

DeterministicMonthlyOrder ==
    reply.op = "get_monthly_usage" =>
        /\ \A i, j \in DOMAIN reply.rows :
               i # j => MonthlySortKey(reply.rows[i]) # MonthlySortKey(reply.rows[j])
        /\ \A ids \in GetMonthlyUsage(db, reply.args.year_month, reply.args.provider,
                                      reply.args.model_id, reply.args.user_id) :
               ids = reply.ids

\* The rows of two different users for one month, provider and model have
\* been returned, the later stored one first (not a claim of its own).
MonthlyOrderTieCase ==
    /\ reply.op = "get_monthly_usage"
    /\ reply.ids = <<2, 1>>
    /\ reply.rows[1].user_id # reply.rows[2].user_id
    /\ MonthlySortKey(reply.rows[1]) = MonthlySortKey(reply.rows[2])
    /\ <<1, 2>> \in GetMonthlyUsage(db, reply.args.year_month, reply.args.provider,
                                    reply.args.model_id, reply.args.user_id)

(***************************************************************************)
(* C38  Empty results become not-found at the HTTP layer.  Every usage     *)
(* endpoint (session, user daily, user full history, daily, daily by date, *)
(* monthly, monthly by period) answers 404 when its query returns no rows. *)
(***************************************************************************)
UsageRoutes ==
    {"/usage/session/{session_id}", "/usage/user/{user_id}",
     "/usage/user/{user_id}/all", "/usage/daily", "/usage/daily/{usage_date}",
     "/usage/monthly", "/usage/monthly/{year_month}"}

\* The routes that return the list of aggregates their query returned.
ListRoutes ==
    {"/usage/daily", "/usage/daily/{usage_date}",
     "/usage/monthly", "/usage/monthly/{year_month}"}

EmptyIsNotFound ==
    (reply.op \in UsageRoutes /\ reply.rows = << >>) => reply.status = "404"

\* Amended: the routes that name a session or a user answer 404 exactly
\* when their queries return no rows; the daily and monthly routes answer
\* 200 with the list, the empty list included.
EmptyIsNotFoundForSessionAndUser ==
    /\ reply.op \in UsageRoutes \ ListRoutes =>
           (reply.status = "404" <=> reply.rows = << >>)
    /\ reply.op \in ListRoutes => reply.status = "200"
    /\ reply.op \in UsageRoutes => reply.status \in {"200", "404"}

\* The store holds rows, a session that has none has been asked for and
\* refused.
EmptyIsNotFoundWitness ==
    /\ reply.op = "/usage/session/{session_id}"
    /\ reply.args.session_id = "session-9"
    /\ reply.status = "404"
    /\ Len(db.session_usage) = 2

\* The store holds rows of May and the daily route has answered in July
\* with the empty list (not a claim of its own).
EmptyListCase ==
    /\ reply.op = "/usage/daily"
    /\ reply.rows = << >>
    /\ reply.status = "200"
    /\ reply.args.start_date.month = 7
    /\ Len(db.daily_usage) = 2

(***************************************************************************)
(* C39  When usage is tracked.  One chat-completion request calls          *)
(* track_usage exactly once if the provider call succeeded or failed with  *)
(* a quota-exceeded error (then with completion_tokens = 0 and a simulated *)
(* reply), and never calls it when the request is rejected for an          *)
(* unsupported model, a max_tokens above the model limit, or any other     *)
(* provider error.                                                         *)
(***************************************************************************)
\* The request passes the two checks of the handler and its provider call
\* succeeds or fails for the exceeded quota.
UsageIsTracked(payload, outcome) ==
    /\ payload.model \in DOMAIN ModelConfigs
    /\ ~TokenLimitExceeded(payload.model, payload.max_tokens)
    /\ outcome \in {"completed", "insufficient_quota"}

\* One call of track_usage begins in this step, with these completion tokens.
BeginsOneCall(payload, completion_tokens) ==
    /\ ncalls' = ncalls + 1
    /\ DOMAIN calls' = DOMAIN calls \cup {ncalls'}
    /\ \A c \in DOMAIN calls : calls'[c] = calls[c]
    /\ calls'[ncalls'].pc = "session"
    /\ calls'[ncalls'].model_id = payload.model
    /\ calls'[ncalls'].session_id = payload.session_id
    /\ calls'[ncalls'].user_id = payload.user_id
    /\ calls'[ncalls'].prompt_tokens = CountPromptTokens
    /\ calls'[ncalls'].completion_tokens = completion_tokens

TrackedExactlyWhen ==
    [][/\ \A payload \in ChatRequests, outcome \in ProviderOutcomes :
              CreateChatCompletionOf(payload, outcome) =>
                  IF UsageIsTracked(payload, outcome)
                  THEN BeginsOneCall(payload,
                                     IF outcome = "insufficient_quota" THEN 0
                                     ELSE ProviderCompletionTokens)
                  ELSE /\ ncalls' = ncalls
                       /\ calls' = calls
                       /\ reply'.op = "create_chat_completion"
                       /\ reply'.status \in {"400", "404", "429", "500"}
       /\ ncalls' # ncalls =>
              \E payload \in ChatRequests, outcome \in ProviderOutcomes :
                  CreateChatCompletionOf(payload, outcome)
       /\ (reply'.op = "create_chat_completion" /\ reply'.status = "200") =>
              \E c \in Running :
                  /\ c \notin DOMAIN calls'
                  /\ reply'.ids = <<c>>
                  /\ reply'.rows = <<EventOf(calls[c])>>
                  /\ ncalls' = ncalls]_vars

\* A request whose provider call failed for the exceeded quota has been
\* answered 200 with the usage of the simulated reply, which the one call
\* of track_usage made so far has recorded.
TrackedExactlyWhenWitness ==
    /\ reply.op = "create_chat_completion"
    /\ reply.status = "200"
    /\ reply.rows[1].completion_tokens = 0
    /\ ncalls = 1
    /\ committed = reply.rows

=============================================================================
